---- MODULE Spec2Model ----
(***************************************************************************)
(* Channel-key distribution of secure-chat-anywhere: the identity provider *)
(* (AuthContext), the channel key manager and content cipher               *)
(* (EncryptionContext), the primitive layer (lib/crypto) and the blob      *)
(* store they persist Key Records to.                                      *)
(*                                                                         *)
(* Several browser processes ("devices") share one blob store.  Each has   *)
(* its own localStorage, its own React authState and its own module-level  *)
(* channelKeysCache.                                                       *)
(*                                                                         *)
(* Cryptography is symbolic: a key is a number, 0 stands for               *)
(* undefined/null, a ciphertext is a record naming the key it was made     *)
(* for.  Values drawn from the platform random source (generateKey,        *)
(* getRandomValues, Math.random ids) are fresh: they never collide with a  *)
(* value drawn before.                                                     *)
(***************************************************************************)
EXTENDS Integers, Sequences, FiniteSets, TLC

Devices == {"d1", "d2"}
Channels == {"c1", "c2"}
Plaintexts == {"hello", "bye"}
\* File objects: name, type and the characters String.fromCharCode makes of the bytes
Files == {[name |-> "a.txt", type |-> "text/plain", size |-> 5, data |-> "hello"]}

\* bounds on the values the random source hands out
MaxUsers == 2
MaxKeyPairs == 3
MaxSymKeys == 2
MaxNonces == 3
\* getChannelKey calls one browser has in flight at a time
MaxTasks == 2
\* messages sent
MaxMessages == 2
\* folders in a drive
MaxFolders == 4
\* code units of a string handed to the primitives
MaxStringLength == 2
MaxFileLength == 2

UserIds == 1..MaxUsers
TaskIds == 1..MaxTasks

VARIABLES
    authState,          \* [device -> AuthState]            (AuthProvider useState)
    localStorage,       \* [device -> window.localStorage]
    channelKeysCache,   \* [device -> [channel -> CryptoKey]] (module global)
    blobStore,          \* location -> stored string        (storage backend)
    outOfBand,          \* last value returned by shareChannelKey, as delivered to a recipient
    nextUser,           \* random source: user ids handed out so far
    nextKeyPair,        \* random source: RSA key pairs handed out so far
    nextSymKey,         \* random source: AES keys handed out so far
    nextNonce,          \* random source: IVs handed out so far
    encLog,             \* history: every AES-GCM encryption made, in order
    tasks,              \* [device -> [task -> in-flight getChannelKey call]]
    messageState,       \* [device -> MessageProvider state]  (channels, currentChannelId, messages, error)
    channelIds,         \* random source: channel ids handed out so far
    nextMessage,        \* random source: message ids handed out so far
    provider,           \* the storage provider configureStorage made the adapter for
    stored,             \* history: location -> what its last store or delete left there
    granted,            \* history: (device, user, channel) whose generate/import succeeded
    flow,               \* history: progress of the share flow generate -> share -> import
    call,               \* a call of a primitive under way: its arguments and results
    pending,            \* per browser: the handlers of the MessageProvider between their awaits
    storageState,       \* StorageProvider: storageSettings, isInitialized, error, and the
                        \* settings saved in localStorage
    drive               \* a Google Drive and the adapter on it: folders, files, folderCache,
                        \* and the calls of the adapter between their requests

vars == <<authState, localStorage, channelKeysCache, blobStore, outOfBand,
          nextUser, nextKeyPair, nextSymKey, nextNonce, encLog, tasks,
          messageState, channelIds, nextMessage, provider, stored, granted, flow, call,
          pending, storageState, drive>>

\* the state of the MessageProvider and the ids it draws
msgVars == <<messageState, channelIds, nextMessage>>

\* the configured adapter and the history of the calls made to it
storeVars == <<provider, stored>>

\* what the handlers that run to their end in one step leave alone
extVars == <<pending, storageState, drive>>

-----------------------------------------------------------------------------
(* Values *)

\* User (types): id 0 is the null user; publicKey 0 is an undefined publicKey
NoUser == [id |-> 0, publicKey |-> 0]

defaultAuthState == [user |-> NoUser, privateKeyJwk |-> 0]

\* JSON.stringify / JSON.parse: a string that carries the serialised value
JSON_stringify(v) == [json |-> v]
JSON_parse(s) == s.json

\* the JWK of an AES key (exportKey of a symmetric CryptoKey)
exportKey(symmetricKey) == [kty |-> "oct", k |-> symmetricKey]

\* importSymmetricKey: 0 when subtle.importKey rejects the JWK
importSymmetricKey(jwk) == IF jwk.kty = "oct" /\ jwk.k # 0 THEN jwk.k ELSE 0

\* importKey(jwk, isPrivate): the RSA key handle, usable only for its usage
importKey(jwk, isPrivate) == [rsa |-> jwk, usage |-> IF isPrivate THEN "decrypt" ELSE "encrypt"]

\* a wrap that hands back the key export unencrypted
encryptWithPublicKey_Cleartext(data, publicKey) == data

\* RSA-OAEP encryption of a short string under a public key, base64 encoded
encryptWithPublicKey(data, publicKey) == [pub |-> publicKey.rsa, data |-> data]

IsRsaCiphertext(b) == DOMAIN b = {"pub", "data"}

\* RSA-OAEP decryption; Failed stands for the rejected promise
Failed == [failed |-> TRUE]

\* a decryption that any private key can do
decryptWithPrivateKey_AnyKey(encryptedData, privateKey) ==
    IF /\ IsRsaCiphertext(encryptedData)
       /\ privateKey.usage = "decrypt"
       /\ encryptedData.pub # 0
    THEN encryptedData.data
    ELSE Failed

decryptWithPrivateKey(encryptedData, privateKey) ==
    IF /\ IsRsaCiphertext(encryptedData)
       /\ privateKey.usage = "decrypt"
       /\ encryptedData.pub # 0
       /\ encryptedData.pub = privateKey.rsa
    THEN encryptedData.data
    ELSE Failed

\* subtle.encrypt with AES-GCM: the ciphertext is bound to the key and the iv it was made with
AesGcmEncrypt(data, iv, symmetricKey) == [key |-> symmetricKey, iv |-> iv, pt |-> data]

\* an encryption that always uses one and the same iv
encryptWithSymmetricKey_FixedIv(data, symmetricKey, drawn) ==
    [ciphertext |-> AesGcmEncrypt(data, 1, symmetricKey), iv |-> 1]

\* encryptWithSymmetricKey(data, symmetricKey); drawn is what getRandomValues returned
encryptWithSymmetricKey(data, symmetricKey, drawn) ==
    [ciphertext |-> AesGcmEncrypt(data, drawn, symmetricKey), iv |-> drawn]

\* a decryption that verifies the key only
decryptWithSymmetricKey_IvUnchecked(encryptedData, iv, symmetricKey) ==
    IF encryptedData.key = symmetricKey
    THEN [failed |-> FALSE, pt |-> encryptedData.pt]
    ELSE [failed |-> TRUE, pt |-> ""]

\* AES-GCM decryption: the plaintext, or failed when the tag does not verify
decryptWithSymmetricKey(encryptedData, iv, symmetricKey) ==
    IF encryptedData.key = symmetricKey /\ encryptedData.iv = iv
    THEN [failed |-> FALSE, pt |-> encryptedData.pt]
    ELSE [failed |-> TRUE, pt |-> ""]

-----------------------------------------------------------------------------
(* Strings, bytes and base64 around the Web Crypto calls *)

\* a JavaScript string is a sequence of UTF-16 code units: 'A', e acute, the byte order
\* mark, the two halves of an emoji
CodeUnits == {65, 233, 65279, 55357, 56832}

Strings16 == UNION {[1..n -> CodeUnits] : n \in 0..MaxStringLength}

IsHighSurrogate(u) == u \in 55296..56319
IsLowSurrogate(u) == u \in 56320..57343

\* the scalar values of a string: a surrogate pair is one scalar, a surrogate without
\* its partner becomes U+FFFD
RECURSIVE scalarsOf(_)
scalarsOf(str) ==
    LET n == Len(str)
        mid == n \div 2
        cut == IF IsHighSurrogate(str[mid]) /\ IsLowSurrogate(str[mid + 1])
               THEN mid + 1 ELSE mid
    IN IF n = 0 THEN <<>>
       ELSE IF n = 1
       THEN IF IsHighSurrogate(str[1]) \/ IsLowSurrogate(str[1]) THEN <<65533>> ELSE str
       ELSE IF n = 2 /\ IsHighSurrogate(str[1]) /\ IsLowSurrogate(str[2])
       THEN <<65536 + ((str[1] - 55296) * 1024) + (str[2] - 56320)>>
       ELSE scalarsOf(SubSeq(str, 1, cut)) \o scalarsOf(SubSeq(str, cut + 1, n))

\* the UTF-8 bytes of a scalar value
utf8(c) ==
    IF c < 128 THEN <<c>>
    ELSE IF c < 2048 THEN <<192 + (c \div 64), 128 + (c % 64)>>
    ELSE IF c < 65536
    THEN <<224 + (c \div 4096), 128 + ((c \div 64) % 64), 128 + (c % 64)>>
    ELSE <<240 + (c \div 262144), 128 + ((c \div 4096) % 64), 128 + ((c \div 64) % 64),
           128 + (c % 64)>>

RECURSIVE utf8All(_)
utf8All(scalars) ==
    LET n == Len(scalars)
    IN IF n = 0 THEN <<>>
       ELSE IF n = 1 THEN utf8(scalars[1])
       ELSE utf8All(SubSeq(scalars, 1, n \div 2)) \o utf8All(SubSeq(scalars, (n \div 2) + 1, n))

\* new TextEncoder().encode(data)
TextEncoder_encode(data) == utf8All(scalarsOf(data))

\* the scalar values of well-formed UTF-8 bytes
RECURSIVE scalarsIn(_)
scalarsIn(bytes) ==
    LET n == Len(bytes)
        b == bytes[1]
        starts == {i \in 2..n : bytes[i] \notin 128..191}
        cut == CHOOSE i \in starts :
                 \A j \in starts : (i - (n \div 2)) * (i - (n \div 2))
                                      <= (j - (n \div 2)) * (j - (n \div 2))
    IN IF n = 0 THEN <<>>
       ELSE IF starts = {}
       THEN IF n = 1 THEN <<b>>
            ELSE IF n = 2 THEN <<((b - 192) * 64) + (bytes[2] - 128)>>
            ELSE IF n = 3
            THEN <<((b - 224) * 4096) + ((bytes[2] - 128) * 64) + (bytes[3] - 128)>>
            ELSE <<((b - 240) * 262144) + ((bytes[2] - 128) * 4096)
                   + ((bytes[3] - 128) * 64) + (bytes[4] - 128)>>
       ELSE scalarsIn(SubSeq(bytes, 1, cut - 1)) \o scalarsIn(SubSeq(bytes, cut, n))

\* the UTF-16 code units of scalar values
RECURSIVE unitsOf(_)
unitsOf(scalars) ==
    LET n == Len(scalars)
        c == scalars[1]
    IN IF n = 0 THEN <<>>
       ELSE IF n = 1
       THEN IF c < 65536 THEN <<c>>
            ELSE <<55296 + ((c - 65536) \div 1024), 56320 + ((c - 65536) % 1024)>>
       ELSE unitsOf(SubSeq(scalars, 1, n \div 2)) \o unitsOf(SubSeq(scalars, (n \div 2) + 1, n))

\* new TextDecoder().decode(buffer): utf-8, ignoreBOM false, so a leading byte order mark
\* is taken off
TextDecoder_decode(bytes) ==
    LET scalars == scalarsIn(bytes)
    IN unitsOf(IF scalars # <<>> /\ Head(scalars) = 65279 THEN Tail(scalars) ELSE scalars)

\* a base64 text: the canonical spelling of a buffer of byteLength bytes, or another
\* spelling of it: spare is the unused low bits of the last sextet (zero in the canonical
\* one), padding the '=' at the end ("full" as btoa writes them, "none", or "partial"),
\* spaces the ASCII whitespace in it
Base64(buffer, byteLength, spare, padding, spaces) ==
    [buffer |-> buffer, byteLength |-> byteLength, spare |-> spare, padding |-> padding,
     spaces |-> spaces]

\* arrayBufferToBase64(buffer): btoa of the bytes
arrayBufferToBase64(buffer, byteLength) == Base64(buffer, byteLength, 0, "full", 0)

\* the other spellings atob reads as the same bytes, one change at a time
Respelled(base64) ==
    {[base64 EXCEPT !.spaces = 1]}
    \cup (IF base64.byteLength % 3 # 0
          THEN {[base64 EXCEPT !.spare = 1], [base64 EXCEPT !.padding = "none"]}
          ELSE {})

\* base64ToArrayBuffer(base64): atob strips whitespace, takes the padding off when the
\* length is a multiple of four, rejects what is left with a length of 1 mod 4 or with a
\* character outside the alphabet, and drops the spare bits unseen
base64ToArrayBuffer(base64) ==
    IF base64.padding = "partial"
    THEN [failed |-> TRUE, buffer |-> base64.buffer]
    ELSE [failed |-> FALSE, buffer |-> base64.buffer]

\* encryptWithSymmetricKey(data, symmetricKey) on a string of code units: TextEncoder,
\* subtle.encrypt under the drawn iv (12 bytes), base64 of the ciphertext (the data and
\* the 16 bytes of the tag) and of the iv
symmetricEncrypt(data, symmetricKey, drawn) ==
    LET dataBuffer == TextEncoder_encode(data)
        enc == encryptWithSymmetricKey(dataBuffer, symmetricKey, drawn)
    IN [ciphertext |-> arrayBufferToBase64(enc.ciphertext, Len(dataBuffer) + 16),
        iv |-> arrayBufferToBase64(enc.iv, 12)]

\* decryptWithSymmetricKey(encryptedData, iv, symmetricKey) on base64 texts:
\* base64ToArrayBuffer of both, subtle.decrypt, TextDecoder
symmetricDecrypt(encryptedData, iv, symmetricKey) ==
    LET encryptedBuffer == base64ToArrayBuffer(encryptedData)
        ivBuffer == base64ToArrayBuffer(iv)
        plain == decryptWithSymmetricKey(encryptedBuffer.buffer, ivBuffer.buffer, symmetricKey)
    IN IF encryptedBuffer.failed \/ ivBuffer.failed
       THEN [err |-> "InvalidCharacterError", value |-> <<>>]
       ELSE IF plain.failed THEN [err |-> "OperationError", value |-> <<>>]
       ELSE [err |-> "", value |-> TextDecoder_decode(plain.pt)]

\* no call of a primitive under way
\* generateKeyPair: the size of the RSA modulus in bits and of a SHA-256 digest in bytes
modulusLength == 2048
hashLength == 32

\* the longest message RSA-OAEP takes under such a key, in bytes
OaepLimit == (modulusLength \div 8) - (2 * hashLength) - 2

\* JSON.stringify(await exportKey(key)) of a 256 bit AES-GCM key, as code units:
\* {"alg":"A256GCM","ext":true,"k":" then the 43 characters of the key material in
\* base64url (here 43 times the letter that stands for the key), then
\* ","key_ops":["encrypt","decrypt"],"kty":"oct"}
exportedKeyText(symmetricKey) ==
    <<123, 34, 97, 108, 103, 34, 58, 34, 65, 50, 53, 54, 71, 67, 77, 34, 44, 34, 101, 120,
      116, 34, 58, 116, 114, 117, 101, 44, 34, 107, 34, 58, 34>>
    \o [i \in 1..43 |-> 64 + symmetricKey]
    \o <<34, 44, 34, 107, 101, 121, 95, 111, 112, 115, 34, 58, 91, 34, 101, 110, 99, 114,
         121, 112, 116, 34, 44, 34, 100, 101, 99, 114, 121, 112, 116, 34, 93, 44, 34, 107,
         116, 121, 34, 58, 34, 111, 99, 116, 34, 125>>

\* encryptWithPublicKey(data, publicKey) on a string of code units: TextEncoder,
\* subtle.encrypt with RSA-OAEP (which rejects data longer than OaepLimit), base64 of the
\* ciphertext, which is as long as the modulus
publicKeyEncrypt(data, publicKey) ==
    LET dataBuffer == TextEncoder_encode(data)
    IN IF Len(dataBuffer) > OaepLimit \/ publicKey.usage # "encrypt"
       THEN [err |-> "OperationError",
             value |-> arrayBufferToBase64(encryptWithPublicKey(<<>>, importKey(0, FALSE)), 0)]
       ELSE [err |-> "",
             value |-> arrayBufferToBase64(encryptWithPublicKey(dataBuffer, publicKey),
                                           modulusLength \div 8)]

\* decryptWithPrivateKey(encryptedData, privateKey) on a base64 text
privateKeyDecrypt(encryptedData, privateKey) ==
    LET encryptedBuffer == base64ToArrayBuffer(encryptedData)
        plain == decryptWithPrivateKey(encryptedBuffer.buffer, privateKey)
    IN IF encryptedBuffer.failed THEN [err |-> "InvalidCharacterError", value |-> <<>>]
       ELSE IF plain = Failed THEN [err |-> "OperationError", value |-> <<>>]
       ELSE [err |-> "", value |-> TextDecoder_decode(plain)]

NoCall == [pc |-> "none"]

\* blobs a caller of importSharedChannelKey can hold without knowing a channel key
Garbage == [pub |-> 0, data |-> JSON_stringify([kty |-> "none", k |-> 0])]
Malformed(pub) == [pub |-> pub, data |-> JSON_stringify([kty |-> "none", k |-> 0])]

\* no share flow under way
NoFlow == [stage |-> "none", chan |-> "", a |-> "", b |-> ""]

NoShare == [blob |-> Garbage, chan |-> ""]

\* nothing read yet: a string that holds no Key Record anyone can unwrap
NoData == JSON_stringify([id |-> <<>>, ownerUserId |-> 0, encryptedKey |-> Garbage,
                          keyType |-> "", associatedId |-> ""])

\* a getChannelKey call that has not been made
IdleTask == [pc |-> "idle", chan |-> "", userId |-> 0, privateKeyJwk |-> 0,
             data |-> NoData, result |-> 0, missed |-> FALSE]

-----------------------------------------------------------------------------
(* Blob store: StorageAdapter.store / retrieve address key under path *)

StoragePaths_ENCRYPTION == "encryption"

\* one collection for the Key Records of all channels
KeyPath_Flat(channelId) == <<StoragePaths_ENCRYPTION, "">>

KeyPath(channelId) == <<StoragePaths_ENCRYPTION, channelId>>
\* one record name for all users
KeyFile_Shared(userId) == <<"key-", 0, ".json">>

KeyFile(userId) == <<"key-", userId, ".json">>

getFullPath(key, path) == <<path, key>>

HasBlob(key, path) == getFullPath(key, path) \in DOMAIN blobStore

store(key, data, path) == (getFullPath(key, path) :> data) @@ blobStore

retrieve(key, path) == blobStore[getFullPath(key, path)]

\* store on top of the objects a handler has already written
storeInto(blobs, key, data, path) == (getFullPath(key, path) :> data) @@ blobs

StoragePaths_CHANNELS == "channels"

ChannelsPath == <<StoragePaths_CHANNELS>>

ChannelFile(channelId) == <<channelId, ".json">>

StoragePaths_MESSAGES == "messages"

MessagesPath(channelId) == <<StoragePaths_MESSAGES, channelId>>

\* `${newMessage.id}.json`, the id being 'msg-' and a random part
MessageFile(id) == <<"msg-", id, ".json">>

\* StorageAdapter.list of the S3 and Azure adapters: the listing is requested, its body is
\* not parsed, and the empty array is returned
list(path) == <<>>

-----------------------------------------------------------------------------
(* Storage adapters behind storeData / retrieveData / deleteData / listData *)

\* StorageFactory.createAdapter: the providers there is an adapter for
StorageProviders == {"google-drive", "amazon-s3", "azure-blob"}

\* a call without path: the root prefix, or the root folder
NoPath == <<>>

\* no data: what a call that threw hands back
NoBlob == JSON_stringify([v |-> 0])

Thrown == [ok |-> FALSE, data |-> NoBlob]

\* the objects without the one at a location
Removed(blobs, location) == [l \in DOMAIN blobs \ {location} |-> blobs[l]]

\* the names of the objects directly under a path, as an array
RECURSIVE namesIn(_, _)
namesIn(blobs, path) ==
    LET here == {l \in DOMAIN blobs : l[1] = path}
    IN IF here = {} THEN <<>>
       ELSE LET l == CHOOSE l \in here : TRUE
            IN <<l[2]>> \o namesIn(Removed(blobs, l), path)

\* AmazonS3Adapter: PUT, GET and DELETE of the object at getFullPath(key, path); ok is
\* whether the request is answered with success
AmazonS3Adapter_store(key, data, path) == storeInto(blobStore, key, data, path)

AmazonS3Adapter_retrieve(key, path, ok) ==
    IF ok /\ HasBlob(key, path) THEN [ok |-> TRUE, data |-> retrieve(key, path)] ELSE Thrown

\* S3 answers the DELETE of an object that is not there with success
AmazonS3Adapter_delete(key, path, ok) ==
    [result |-> ok, blobs |-> IF ok THEN Removed(blobStore, getFullPath(key, path)) ELSE blobStore]

AmazonS3Adapter_list(path, ok) == [ok |-> ok, keys |-> list(path)]

\* AzureBlobAdapter: the same requests on the blob named getBlobName(key, path)
getBlobName(key, path) == <<path, key>>

AzureBlobAdapter_store(key, data, path) == (getBlobName(key, path) :> data) @@ blobStore

AzureBlobAdapter_retrieve(key, path, ok) ==
    IF ok /\ getBlobName(key, path) \in DOMAIN blobStore
    THEN [ok |-> TRUE, data |-> blobStore[getBlobName(key, path)]]
    ELSE Thrown

\* Azure answers the DELETE of a blob that is not there with 404
AzureBlobAdapter_delete(key, path, ok) ==
    LET found == ok /\ getBlobName(key, path) \in DOMAIN blobStore
    IN [result |-> found,
        blobs |-> IF found THEN Removed(blobStore, getBlobName(key, path)) ELSE blobStore]

\* the listing is requested, its XML is not parsed, and the empty array is returned
AzureBlobAdapter_list(path, ok) == [ok |-> ok, keys |-> <<>>]

\* GoogleDriveAdapter: the file named key in the folder of the path (findOrCreatePath), in
\* the root folder without a path; store patches the file findFile finds there
findFile(fileName, parentId) == <<parentId, fileName>> \in DOMAIN blobStore

GoogleDriveAdapter_store(key, data, path) == (<<path, key>> :> data) @@ blobStore

\* retrieve(key, data, path): the second parameter is not used
GoogleDriveAdapter_retrieve(key, data, path, ok) ==
    IF ok /\ findFile(key, path)
    THEN [ok |-> TRUE, data |-> blobStore[<<path, key>>]]
    ELSE Thrown

\* delete(key, data, path): the second parameter is not used; false when no file is found
GoogleDriveAdapter_delete(key, data, path, ok) ==
    LET found == ok /\ findFile(key, path)
    IN [result |-> found,
        blobs |-> IF found THEN Removed(blobStore, <<path, key>>) ELSE blobStore]

GoogleDriveAdapter_list(path, ok) ==
    [ok |-> ok, keys |-> IF ok THEN namesIn(blobStore, path) ELSE <<>>]

\* StorageSettings; complete is whether the credentials hold every field the adapter of
\* the provider asks for, rootFolder "" is no root folder
StorageSettings(storageProvider, complete, rootFolder) ==
    [provider |-> storageProvider, complete |-> complete, rootFolder |-> rootFolder]

\* storageSettings null, and no item 'storageSettings' in localStorage
NoSettings == StorageSettings("", FALSE, "")

\* StorageProvider useState defaults
defaultStorageState ==
    [storageSettings |-> NoSettings, isInitialized |-> FALSE, error |-> "", saved |-> NoSettings]

\* the state configureStorage leaves when it returns true
Configured(storageProvider) ==
    LET settings == StorageSettings(storageProvider, TRUE, "")
    IN [storageSettings |-> settings, isInitialized |-> TRUE, error |-> "", saved |-> settings]

\* StorageFactory.createAdapter without the call of adapter.initialize
createAdapter_Uninitialized(config, ok) ==
    CASE config.provider \in StorageProviders -> ""
      [] config.provider = "dropbox" -> "Dropbox adapter not implemented yet"
      [] config.provider = "local" -> "Local storage adapter not implemented yet"
      [] OTHER -> "Unknown storage provider"

\* initialize(config) of the adapter of config.provider: the error it throws, "" when it
\* returns.  Only the Google Drive adapter sends requests, for its root folder, and ok is
\* whether they are answered
initialize(config, ok) ==
    IF ~config.complete
    THEN CASE config.provider = "google-drive" -> "Google Drive access token is required"
           [] config.provider = "amazon-s3" -> "Amazon S3 credentials are incomplete"
           [] config.provider = "azure-blob" -> "Azure Blob credentials are incomplete"
    ELSE IF config.provider = "google-drive" /\ config.rootFolder # "" /\ ~ok
    THEN "Failed to search for folder"
    ELSE ""

\* StorageFactory.createAdapter(config): the error it throws, "" when it returns the adapter
createAdapter(config, ok) ==
    CASE config.provider \in StorageProviders -> initialize(config, ok)
      [] config.provider = "dropbox" -> "Dropbox adapter not implemented yet"
      [] config.provider = "local" -> "Local storage adapter not implemented yet"
      [] OTHER -> "Unknown storage provider"

\* configureStorage(settings); provider is the adapter in storageAdapter, "" for null
configureStorage(settings, ok) ==
    LET err == createAdapter(settings, ok)
    IN /\ provider' = IF err = "" THEN settings.provider ELSE provider
       /\ storageState' =
             IF err = ""
             THEN [storageSettings |-> settings, isInitialized |-> TRUE, error |-> "",
                   saved |-> settings]
             ELSE [storageState EXCEPT !.error = "Failed to configure storage provider"]
       /\ UNCHANGED <<authState, localStorage, channelKeysCache, blobStore, outOfBand, nextUser,
                      nextKeyPair, nextSymKey, nextNonce, encLog, tasks, msgVars, stored,
                      granted, flow, call, pending, drive>>

\* !storageAdapter || !isInitialized does not hold
Ready == provider # "" /\ storageState.isInitialized

\* retrieveData(key, path): storageAdapter.retrieve(key, path), the interface's two
\* arguments in the first two places of the adapter's method
retrieveData(key, path, ok) ==
    CASE ~Ready -> Thrown
      [] provider = "google-drive" -> GoogleDriveAdapter_retrieve(key, path, NoPath, ok)
      [] provider = "amazon-s3" -> AmazonS3Adapter_retrieve(key, path, ok)
      [] provider = "azure-blob" -> AzureBlobAdapter_retrieve(key, path, ok)

\* listData(path): storageAdapter.list(path)
listData(path, ok) ==
    CASE ~Ready -> [ok |-> FALSE, keys |-> <<>>]
      [] provider = "google-drive" -> GoogleDriveAdapter_list(path, ok)
      [] provider = "amazon-s3" -> AmazonS3Adapter_list(path, ok)
      [] provider = "azure-blob" -> AzureBlobAdapter_list(path, ok)

\* an empty drive, and the adapter as its constructor leaves it (rootFolderId null,
\* written 0 and named 'root' in the queries)
NoDrive == [folders |-> {}, files |-> {}, folderCache |-> <<>>, calls |-> {}]

\* a call of the adapter between two of its requests: path is the third argument for
\* retrieve and delete, at is the segment of the path findOrCreatePath has come to,
\* parentId the folder it has resolved so far
DriveCall(op, key, data, path, at, parentId, phase) ==
    [op |-> op, key |-> key, data |-> data, path |-> path, at |-> at, parentId |-> parentId,
     phase |-> phase]

\* the other variables, which the adapter does not touch
driveOnly ==
    UNCHANGED <<authState, localStorage, channelKeysCache, blobStore, outOfBand, nextUser,
                nextKeyPair, nextSymKey, nextNonce, encLog, tasks, msgVars, storeVars, granted,
                flow, call, pending, storageState>>

\* store, retrieve, delete or list is called and runs to its first request:
\* findOrCreatePath returns the folder from the cache, or starts at the root folder;
\* without a path the root folder is the parent
driveCalled(op, key, data, path) ==
    LET cached == path \in DOMAIN drive.folderCache
        c == IF path = NoPath THEN DriveCall(op, key, data, path, 0, 0, "file")
             ELSE IF cached
             THEN DriveCall(op, key, data, path, 0, drive.folderCache[path], "file")
             ELSE DriveCall(op, key, data, path, 1, 0, "search")
    IN /\ Cardinality(drive.calls) < MaxTasks
       /\ c \notin drive.calls
       /\ drive' = [drive EXCEPT !.calls = @ \cup {c}]
       /\ driveOnly

\* findOrCreateFolder returned id to findOrCreatePath: the next segment, or the end of
\* the path, where the folder is put in the cache
resolved(c, id) ==
    IF c.at = Len(c.path)
    THEN [calls |-> (drive.calls \ {c}) \cup {[c EXCEPT !.parentId = id, !.phase = "file"]},
          folderCache |-> (c.path :> id) @@ drive.folderCache]
    ELSE [calls |-> (drive.calls \ {c})
                       \cup {[c EXCEPT !.parentId = id, !.at = @ + 1, !.phase = "search"]},
          folderCache |-> drive.folderCache]

\* findOrCreateFolder, the query: data.files[0] is any of the folders of that name in the
\* parent; no folder found, the folder will be created
findFolder(c) ==
    LET found == {f \in drive.folders : f.name = c.path[c.at] /\ f.parent = c.parentId}
    IN /\ c \in drive.calls
       /\ c.phase = "search"
       /\ IF found = {}
          THEN drive' = [drive EXCEPT
                            !.calls = (@ \ {c}) \cup {[c EXCEPT !.phase = "create"]}]
          ELSE \E f \in found :
                  drive' = [drive EXCEPT !.calls = resolved(c, f.id).calls,
                                         !.folderCache = resolved(c, f.id).folderCache]
       /\ driveOnly

\* findOrCreateFolder, the POST that creates the folder; by is the method that asked
createFolder(c) ==
    LET id == Cardinality(drive.folders) + 1
    IN /\ c \in drive.calls
       /\ c.phase = "create"
       /\ id <= MaxFolders
       /\ drive' = [drive EXCEPT
             !.folders = @ \cup {[id |-> id, name |-> c.path[c.at], parent |-> c.parentId,
                                  by |-> c.op]},
             !.calls = resolved(c, id).calls,
             !.folderCache = resolved(c, id).folderCache]
       /\ driveOnly

\* the rest of the method once the parent folder is known: store patches the file
\* findFile finds in the parent or creates one, delete removes the one found, retrieve
\* and list read
driveReturned(c) ==
    LET found == {f \in drive.files : f.name = c.key /\ f.parent = c.parentId}
        file == [name |-> c.key, parent |-> c.parentId, data |-> c.data, path |-> c.path]
    IN /\ c \in drive.calls
       /\ c.phase = "file"
       /\ \/ /\ c.op = "store"
             /\ IF found = {}
                THEN drive' = [drive EXCEPT !.calls = @ \ {c}, !.files = @ \cup {file}]
                ELSE \E f \in found :
                        drive' = [drive EXCEPT !.calls = @ \ {c},
                                               !.files = (@ \ {f}) \cup {file}]
          \/ /\ c.op = "delete"
             /\ IF found = {}
                THEN drive' = [drive EXCEPT !.calls = @ \ {c}]
                ELSE \E f \in found :
                        drive' = [drive EXCEPT !.calls = @ \ {c}, !.files = @ \ {f}]
          \/ /\ c.op \in {"retrieve", "list"}
             /\ drive' = [drive EXCEPT !.calls = @ \ {c}]
       /\ driveOnly

\* what a caller's last successful store or delete left at a location
Kept(data) == [data |-> data, deleted |-> FALSE]

\* storeData(key, data, path): storageAdapter.store(key, data, path)
storeData(key, data, path, ok) ==
    /\ blobStore' = IF ~Ready \/ ~ok THEN blobStore
                    ELSE CASE provider = "google-drive" -> GoogleDriveAdapter_store(key, data, path)
                           [] provider = "amazon-s3" -> AmazonS3Adapter_store(key, data, path)
                           [] provider = "azure-blob" -> AzureBlobAdapter_store(key, data, path)
    /\ stored' = IF Ready /\ ok THEN (<<path, key>> :> Kept(data)) @@ stored ELSE stored
    /\ UNCHANGED <<authState, localStorage, channelKeysCache, outOfBand, nextUser, nextKeyPair,
                   nextSymKey, nextNonce, encLog, tasks, msgVars, provider, granted, flow, call, extVars>>

\* deleteData(key, path): storageAdapter.delete(key, path)
deleteData(key, path, ok) ==
    LET r == CASE ~Ready -> [result |-> FALSE, blobs |-> blobStore]
               [] provider = "google-drive" -> GoogleDriveAdapter_delete(key, path, NoPath, ok)
               [] provider = "amazon-s3" -> AmazonS3Adapter_delete(key, path, ok)
               [] provider = "azure-blob" -> AzureBlobAdapter_delete(key, path, ok)
    IN /\ blobStore' = r.blobs
       /\ stored' = IF r.result /\ <<path, key>> \in DOMAIN stored
                    THEN [stored EXCEPT ![<<path, key>>].deleted = TRUE]
                    ELSE stored
       /\ UNCHANGED <<authState, localStorage, channelKeysCache, outOfBand, nextUser,
                      nextKeyPair, nextSymKey, nextNonce, encLog, tasks, msgVars, provider,
                      granted, flow, call, extVars>>

\* the keys, paths and data of the calls made to the adapter
StoreKeys == {KeyFile(1), MessageFile(1)}

StorePaths == {NoPath, KeyPath("c1"), MessagesPath("c1")}

StoreBlobs == {JSON_stringify([v |-> 1]), JSON_stringify([v |-> 2])}

\* MessageProvider useState defaults
defaultMessageState == [channels |-> <<>>, currentChannelId |-> "", messages |-> <<>>, error |-> ""]

-----------------------------------------------------------------------------
(* Identity provider (AuthContext) *)

\* StorageContext.tsx:214-216 and 235-241: no handler under way, none has returned, and
\* the effect on currentChannelId has run for the initial value (null, so messages is
\* emptied)
NoPending == [calls |-> {}, rendered |-> "", returned |-> {}]

\* the state after the providers have mounted, whatever the storage provider
InitApp ==
    /\ pending = [d \in Devices |-> NoPending]
    /\ drive = NoDrive
    /\ authState = [d \in Devices |-> defaultAuthState]
    /\ localStorage = [d \in Devices |->
          [user |-> NoUser, privateKey |-> 0, privateKeyOf |-> [u \in UserIds |-> 0]]]
    /\ channelKeysCache = [d \in Devices |-> [c \in Channels |-> 0]]
    /\ blobStore = <<>>
    /\ outOfBand = NoShare
    /\ nextUser = 0
    /\ nextKeyPair = 0
    /\ nextSymKey = 0
    /\ nextNonce = 0
    /\ encLog = <<>>
    /\ tasks = [d \in Devices |-> [t \in TaskIds |-> IdleTask]]
    /\ messageState = [d \in Devices |-> defaultMessageState]
    /\ channelIds = {}
    /\ nextMessage = 0
    /\ stored = <<>>
    /\ granted = {}
    /\ flow = NoFlow

\* the S3 adapter configured, as store, retrieve and list have it
Init ==
    /\ provider = "amazon-s3"
    /\ storageState = Configured(provider)
    /\ call = NoCall
    /\ InitApp

\* any of the three providers configured
InitStore ==
    /\ provider \in StorageProviders
    /\ storageState = Configured(provider)
    /\ call = NoCall
    /\ InitApp

getPrivateKey(d) ==
    IF authState[d].user.id = 0 THEN 0
    ELSE IF authState[d].privateKeyJwk # 0 THEN authState[d].privateKeyJwk
    ELSE localStorage[d].privateKeyOf[authState[d].user.id]

\* login when the id Math.random gives is id: one never drawn before, or, by a collision,
\* one that this browser has already stored a private key for
loginAs(d, id) ==
    /\ id \in 1..(nextUser + 1)
    /\ id <= MaxUsers
    /\ LET found == localStorage[d].privateKeyOf[id]
           fresh == nextKeyPair + 1
           privateKey == IF found = 0 THEN fresh ELSE found
           mockUser == [id |-> id, publicKey |-> IF found = 0 THEN fresh ELSE 0]
       IN /\ found = 0 => nextKeyPair < MaxKeyPairs
          /\ nextUser' = IF id > nextUser THEN id ELSE nextUser
          /\ nextKeyPair' = IF found = 0 THEN fresh ELSE nextKeyPair
          /\ localStorage' = [localStorage EXCEPT
                ![d].privateKeyOf[id] = privateKey,
                ![d].user = mockUser,
                ![d].privateKey = privateKey]
          /\ authState' = [authState EXCEPT ![d] = [user |-> mockUser, privateKeyJwk |-> privateKey]]
    /\ flow' = NoFlow
    /\ UNCHANGED <<channelKeysCache, blobStore, outOfBand, nextSymKey, nextNonce, encLog, tasks,
                   granted, msgVars, storeVars, call, extVars>>

\* login with an id never drawn before
login(d) ==
    /\ nextUser < MaxUsers
    /\ LET id == nextUser + 1
           found == localStorage[d].privateKeyOf[id]
           fresh == nextKeyPair + 1
           privateKey == IF found = 0 THEN fresh ELSE found
           mockUser == [id |-> id, publicKey |-> IF found = 0 THEN fresh ELSE 0]
       IN /\ found = 0 => nextKeyPair < MaxKeyPairs
          /\ nextUser' = id
          /\ nextKeyPair' = IF found = 0 THEN fresh ELSE nextKeyPair
          /\ localStorage' = [localStorage EXCEPT
                ![d].privateKeyOf[id] = privateKey,
                ![d].user = mockUser,
                ![d].privateKey = privateKey]
          /\ authState' = [authState EXCEPT ![d] = [user |-> mockUser, privateKeyJwk |-> privateKey]]
    /\ flow' = NoFlow
    /\ UNCHANGED <<channelKeysCache, blobStore, outOfBand, nextSymKey, nextNonce, encLog, tasks, granted, msgVars, storeVars, call, extVars>>

signUp(d) ==
    /\ nextUser < MaxUsers
    /\ nextKeyPair < MaxKeyPairs
    /\ LET id == nextUser + 1
           fresh == nextKeyPair + 1
           newUser == [id |-> id, publicKey |-> fresh]
       IN /\ nextUser' = id
          /\ nextKeyPair' = fresh
          /\ localStorage' = [localStorage EXCEPT
                ![d].user = newUser,
                ![d].privateKey = fresh,
                ![d].privateKeyOf[id] = fresh]
          /\ authState' = [authState EXCEPT ![d] = [user |-> newUser, privateKeyJwk |-> fresh]]
    /\ flow' = NoFlow
    /\ UNCHANGED <<channelKeysCache, blobStore, outOfBand, nextSymKey, nextNonce, encLog, tasks, granted, msgVars, storeVars, call, extVars>>

logout(d) ==
    /\ authState[d].user.id # 0
    /\ localStorage' = [localStorage EXCEPT ![d].user = NoUser]
    /\ authState' = [authState EXCEPT ![d] = [user |-> NoUser, privateKeyJwk |-> 0]]
    /\ flow' = NoFlow
    /\ UNCHANGED <<channelKeysCache, blobStore, outOfBand, nextUser, nextKeyPair,
                   nextSymKey, nextNonce, encLog, tasks, granted, msgVars, storeVars, call, extVars>>

generateUserKeys(d) ==
    /\ authState[d].user.id # 0
    /\ nextKeyPair < MaxKeyPairs
    /\ LET fresh == nextKeyPair + 1
           updatedUser == [authState[d].user EXCEPT !.publicKey = fresh]
       IN /\ nextKeyPair' = fresh
          /\ localStorage' = [localStorage EXCEPT
                ![d].privateKey = fresh,
                ![d].privateKeyOf[authState[d].user.id] = fresh,
                ![d].user = updatedUser]
          /\ authState' = [authState EXCEPT ![d] = [user |-> updatedUser, privateKeyJwk |-> fresh]]
    /\ flow' = NoFlow
    /\ UNCHANGED <<channelKeysCache, blobStore, outOfBand, nextUser,
                   nextSymKey, nextNonce, encLog, tasks, granted, msgVars, storeVars, call, extVars>>

\* a page reload: module state is lost, AuthProvider mounts and runs checkAuthState
checkAuthState(d) ==
    /\ authState' = [authState EXCEPT ![d] =
          IF localStorage[d].user.id # 0
          THEN [user |-> localStorage[d].user, privateKeyJwk |-> localStorage[d].privateKey]
          ELSE [user |-> NoUser, privateKeyJwk |-> 0]]
    /\ channelKeysCache' = [channelKeysCache EXCEPT ![d] = [c \in Channels |-> 0]]
    /\ flow' = NoFlow
    /\ UNCHANGED <<localStorage, blobStore, outOfBand, nextUser, nextKeyPair,
                   nextSymKey, nextNonce, encLog, tasks, granted, msgVars, storeVars, call, extVars>>

-----------------------------------------------------------------------------
(* Channel key manager (EncryptionContext) *)

Outcome(key, err, reads, unwraps) ==
    [key |-> key, err |-> err, reads |-> reads, unwraps |-> unwraps]

\* getChannelKey from the parse of the retrieved Key Record on (lines 71-80)
unwrapKeyRecord(encryptedKeyReferenceData, privateKeyJwk) ==
    LET encryptedKeyReference == JSON_parse(encryptedKeyReferenceData)
        decryptedKeyJwk == decryptWithPrivateKey(encryptedKeyReference.encryptedKey,
                                                 importKey(privateKeyJwk, TRUE))
    IN IF "failed" \in DOMAIN decryptedKeyJwk THEN Outcome(0, "OperationError", 1, 1)
       ELSE LET symmetricKey == importSymmetricKey(JSON_parse(decryptedKeyJwk))
            IN IF symmetricKey = 0 THEN Outcome(0, "DataError", 1, 1)
               ELSE Outcome(symmetricKey, "", 1, 1)

\* getChannelKey after the cache check (lines 55-85): load own Key Record and unwrap it.
\* storeOk is whether the blob store answers the retrieve call.
loadChannelKey(d, channelId, storeOk) ==
    LET privateKeyJwk == getPrivateKey(d)
        key == KeyFile(authState[d].user.id)
        path == KeyPath(channelId)
    IN IF privateKeyJwk = 0 THEN Outcome(0, "Private key not available", 0, 0)
       ELSE IF ~storeOk \/ ~HasBlob(key, path) THEN Outcome(0, "StorageError", 1, 0)
       ELSE unwrapKeyRecord(retrieve(key, path), privateKeyJwk)

\* the try block of getChannelKey
getChannelKeyTry(d, channelId, storeOk) ==
    IF channelKeysCache[d][channelId] # 0
    THEN Outcome(channelKeysCache[d][channelId], "", 0, 0)
    ELSE loadChannelKey(d, channelId, storeOk)

\* what getChannelKey returns: the catch block turns every error into null
getChannelKeyResult(d, channelId, storeOk) ==
    LET t == getChannelKeyTry(d, channelId, storeOk)
    IN [key |-> t.key, raised |-> FALSE, reads |-> t.reads, unwraps |-> t.unwraps]

\* the cache after getChannelKey
CacheAfterGet(d, channelId, storeOk) ==
    LET t == getChannelKeyTry(d, channelId, storeOk)
    IN IF t.key # 0
       THEN [channelKeysCache EXCEPT ![d][channelId] = t.key]
       ELSE channelKeysCache

getChannelKey(d, channelId, storeOk) ==
    /\ channelKeysCache' = CacheAfterGet(d, channelId, storeOk)
    /\ UNCHANGED <<authState, localStorage, blobStore, outOfBand, nextUser, nextKeyPair,
                   nextSymKey, nextNonce, encLog, tasks, granted, flow, msgVars, storeVars, call, extVars>>

\* a probe that looks at the cache only
hasChannelKeyResult_CacheOnly(d, channelId, storeOk) ==
    [value |-> channelKeysCache[d][channelId] # 0, raised |-> FALSE]

\* what hasChannelKey returns
hasChannelKeyResult(d, channelId, storeOk) ==
    IF channelKeysCache[d][channelId] # 0
    THEN [value |-> TRUE, raised |-> FALSE]
    ELSE LET key == getChannelKeyResult(d, channelId, storeOk)
         IN [value |-> IF key.raised THEN FALSE ELSE key.key # 0, raised |-> FALSE]

hasChannelKey(d, channelId, storeOk) ==
    /\ channelKeysCache' = CacheAfterGet(d, channelId, storeOk)
    /\ UNCHANGED <<authState, localStorage, blobStore, outOfBand, nextUser, nextKeyPair,
                   nextSymKey, nextNonce, encLog, tasks, granted, flow, msgVars, storeVars, call, extVars>>

\* the Key Record generateChannelKey and importSharedChannelKey build (createdAt left out)
keyReference(channelId, user, encryptedKey) ==
    [id |-> <<"key-", channelId, "-", user.id>>,
     ownerUserId |-> user.id,
     encryptedKey |-> encryptedKey,
     keyType |-> "channel",
     associatedId |-> channelId]

\* a generateChannelKey that goes on to the cache when the write of the record failed
generateChannelKeyTry_StoreFailureIgnored(d, channelId, symmetricKey, storeOk) ==
    LET user == authState[d].user
    IN IF user.id = 0 THEN [err |-> "User not authenticated", stored |-> FALSE]
       ELSE IF getPrivateKey(d) = 0 THEN [err |-> "Private key not available", stored |-> FALSE]
       ELSE IF user.publicKey = 0 THEN [err |-> "Public key not available", stored |-> FALSE]
       ELSE [err |-> "", stored |-> storeOk]

\* the try block of generateChannelKey; symmetricKey is the key generateSymmetricKey returned
generateChannelKeyTry(d, channelId, symmetricKey, storeOk) ==
    LET user == authState[d].user
    IN IF user.id = 0 THEN [err |-> "User not authenticated", stored |-> FALSE]
       ELSE IF getPrivateKey(d) = 0 THEN [err |-> "Private key not available", stored |-> FALSE]
       ELSE IF user.publicKey = 0 THEN [err |-> "Public key not available", stored |-> FALSE]
       ELSE IF ~storeOk THEN [err |-> "StorageError", stored |-> FALSE]
       ELSE [err |-> "", stored |-> TRUE]

generateChannelKeyRecord(d, channelId, symmetricKey) ==
    JSON_stringify(keyReference(channelId, authState[d].user,
        encryptWithPublicKey(JSON_stringify(exportKey(symmetricKey)),
                             importKey(authState[d].user.publicKey, FALSE))))

generateChannelKey(d, channelId, storeOk) ==
    /\ authState[d].user.id # 0 => nextSymKey < MaxSymKeys
    /\ LET symmetricKey == nextSymKey + 1
           t == generateChannelKeyTry(d, channelId, symmetricKey, storeOk)
           user == authState[d].user
       IN /\ nextSymKey' = IF user.id # 0 THEN symmetricKey ELSE nextSymKey
          /\ blobStore' = IF t.stored
                          THEN store(KeyFile(user.id),
                                     generateChannelKeyRecord(d, channelId, symmetricKey),
                                     KeyPath(channelId))
                          ELSE blobStore
          /\ channelKeysCache' = IF t.err = ""
                                 THEN [channelKeysCache EXCEPT ![d][channelId] = symmetricKey]
                                 ELSE channelKeysCache
          /\ granted' = IF t.err = "" THEN granted \cup {<<d, user.id, channelId>>} ELSE granted
          /\ flow' = IF t.err = ""
                     THEN [stage |-> "generated", chan |-> channelId, a |-> d, b |-> ""]
                     ELSE NoFlow
    /\ UNCHANGED <<authState, localStorage, outOfBand, nextUser, nextKeyPair, nextNonce, encLog, tasks, msgVars, storeVars, call, extVars>>

\* a share that wraps for the sharer's own public key
shareChannelKeyTry_OwnKey(d, channelId, recipientPublicKeyJwk, storeOk) ==
    LET channelKey == getChannelKeyResult(d, channelId, storeOk).key
    IN IF authState[d].user.id = 0 THEN [err |-> "User not authenticated", value |-> Garbage]
       ELSE IF channelKey = 0 THEN [err |-> "Channel key not available", value |-> Garbage]
       ELSE IF recipientPublicKeyJwk = 0 THEN [err |-> "DataError", value |-> Garbage]
       ELSE [err |-> "",
             value |-> encryptWithPublicKey(JSON_stringify(exportKey(channelKey)),
                                            importKey(authState[d].user.publicKey, FALSE))]

\* the try block of shareChannelKey; an error is rethrown to the caller
shareChannelKeyTry(d, channelId, recipientPublicKeyJwk, storeOk) ==
    LET channelKey == getChannelKeyResult(d, channelId, storeOk).key
    IN IF authState[d].user.id = 0 THEN [err |-> "User not authenticated", value |-> Garbage]
       ELSE IF channelKey = 0 THEN [err |-> "Channel key not available", value |-> Garbage]
       ELSE IF recipientPublicKeyJwk = 0 THEN [err |-> "DataError", value |-> Garbage]
       ELSE [err |-> "",
             value |-> encryptWithPublicKey(JSON_stringify(exportKey(channelKey)),
                                            importKey(recipientPublicKeyJwk, FALSE))]

\* what shareChannelKey hands to its caller: the blob, or the rethrown error
shareChannelKeyResult(d, channelId, recipientPublicKeyJwk, storeOk) ==
    LET t == shareChannelKeyTry(d, channelId, recipientPublicKeyJwk, storeOk)
    IN [raised |-> t.err # "", value |-> t.value]

shareChannelKey(d, channelId, recipientPublicKeyJwk, storeOk) ==
    LET t == shareChannelKeyTry(d, channelId, recipientPublicKeyJwk, storeOk)
    IN /\ channelKeysCache' = IF authState[d].user.id = 0 THEN channelKeysCache
                              ELSE CacheAfterGet(d, channelId, storeOk)
       /\ outOfBand' = IF t.err = ""
                       THEN [blob |-> t.value, chan |-> channelId]
                       ELSE outOfBand
       /\ flow' = IF t.err = "" /\ flow.stage = "generated" /\ flow.a = d /\ flow.chan = channelId
                  THEN [flow EXCEPT !.stage = "shared"]
                  ELSE NoFlow
       /\ UNCHANGED <<authState, localStorage, blobStore, nextUser, nextKeyPair,
                      nextSymKey, nextNonce, encLog, tasks, granted, msgVars, storeVars, call, extVars>>

\* an import that caches the key and persists no record
importSharedChannelKeyTry_NotStored(d, encryptedKey, channelId, storeOk) ==
    LET privateKeyJwk == getPrivateKey(d)
        decryptedKeyJwk == decryptWithPrivateKey(encryptedKey, importKey(privateKeyJwk, TRUE))
    IN IF authState[d].user.id = 0 \/ privateKeyJwk = 0 \/ "failed" \in DOMAIN decryptedKeyJwk
       THEN [err |-> "OperationError", stored |-> FALSE, key |-> 0]
       ELSE LET symmetricKey == importSymmetricKey(JSON_parse(decryptedKeyJwk))
            IN IF symmetricKey = 0
               THEN [err |-> "DataError", stored |-> FALSE, key |-> 0]
               ELSE [err |-> "", stored |-> FALSE, key |-> symmetricKey]

\* the try block of importSharedChannelKey: stored says whether the Key Record was written
importSharedChannelKeyTry(d, encryptedKey, channelId, storeOk) ==
    LET privateKeyJwk == getPrivateKey(d)
        decryptedKeyJwk == decryptWithPrivateKey(encryptedKey, importKey(privateKeyJwk, TRUE))
    IN IF authState[d].user.id = 0
       THEN [err |-> "User not authenticated", stored |-> FALSE, key |-> 0]
       ELSE IF privateKeyJwk = 0
       THEN [err |-> "Private key not available", stored |-> FALSE, key |-> 0]
       ELSE IF "failed" \in DOMAIN decryptedKeyJwk
       THEN [err |-> "OperationError", stored |-> FALSE, key |-> 0]
       ELSE IF ~storeOk
       THEN [err |-> "StorageError", stored |-> FALSE, key |-> 0]
       ELSE LET symmetricKey == importSymmetricKey(JSON_parse(decryptedKeyJwk))
            IN IF symmetricKey = 0
               THEN [err |-> "DataError", stored |-> TRUE, key |-> 0]
               ELSE [err |-> "", stored |-> TRUE, key |-> symmetricKey]

importSharedChannelKey(d, encryptedKey, channelId, storeOk) ==
    LET t == importSharedChannelKeyTry(d, encryptedKey, channelId, storeOk)
        user == authState[d].user
    IN /\ blobStore' = IF t.stored
                       THEN store(KeyFile(user.id),
                                  JSON_stringify(keyReference(channelId, user, encryptedKey)),
                                  KeyPath(channelId))
                       ELSE blobStore
       /\ channelKeysCache' = IF t.err = ""
                              THEN [channelKeysCache EXCEPT ![d][channelId] = t.key]
                              ELSE channelKeysCache
       /\ granted' = IF t.err = "" THEN granted \cup {<<d, user.id, channelId>>} ELSE granted
       /\ flow' = IF /\ t.err = ""
                     /\ flow.stage = "shared"
                     /\ flow.chan = channelId
                     /\ flow.a # d
                     /\ encryptedKey = outOfBand.blob
                  THEN [flow EXCEPT !.stage = "imported", !.b = d]
                  ELSE NoFlow
       /\ UNCHANGED <<authState, localStorage, outOfBand, nextUser, nextKeyPair,
                      nextSymKey, nextNonce, encLog, tasks, msgVars, storeVars, call, extVars>>

\* the try block of encryptMessage; iv is the value getRandomValues returned
encryptMessageTry(d, message, channelId, iv, storeOk) ==
    LET channelKey == getChannelKeyResult(d, channelId, storeOk).key
    IN IF channelKey = 0
       THEN [err |-> "Channel key not available", ciphertext |-> AesGcmEncrypt("", 0, 0), iv |-> 0]
       ELSE LET enc == encryptWithSymmetricKey(message, channelKey, iv)
            IN [err |-> "", ciphertext |-> enc.ciphertext, iv |-> enc.iv]

\* the try block of decryptMessage
decryptMessageTry(d, ciphertext, iv, channelId, storeOk) ==
    LET channelKey == getChannelKeyResult(d, channelId, storeOk).key
        plain == decryptWithSymmetricKey(ciphertext, iv, channelKey)
    IN IF channelKey = 0 THEN [err |-> "Channel key not available", value |-> ""]
       ELSE IF plain.failed THEN [err |-> "OperationError", value |-> ""]
       ELSE [err |-> "", value |-> plain.pt]

\* an entry of the encryption history
Encryption(op, data, enc) == [op |-> op, pt |-> data, ciphertext |-> enc.ciphertext, iv |-> enc.iv]

\* encryptMessage(message, channelId), as sendMessage, editMessage, addReaction and
\* removeReaction call it; the iv is drawn inside, once the channel key is there
encryptMessage(d, message, channelId, storeOk) ==
    LET t == encryptMessageTry(d, message, channelId, nextNonce + 1, storeOk)
    IN /\ t.err = "" => nextNonce < MaxNonces
       /\ nextNonce' = IF t.err = "" THEN nextNonce + 1 ELSE nextNonce
       /\ encLog' = IF t.err = ""
                    THEN Append(encLog, Encryption("encryptMessage", message, t))
                    ELSE encLog
       /\ channelKeysCache' = CacheAfterGet(d, channelId, storeOk)
       /\ UNCHANGED <<authState, localStorage, blobStore, outOfBand, nextUser, nextKeyPair,
                      nextSymKey, tasks, granted, flow, msgVars, storeVars, call, extVars>>

\* the try block of encryptFile; the metadata is returned as plain JSON
encryptFileTry(d, file, channelId, iv, storeOk) ==
    LET channelKey == getChannelKeyResult(d, channelId, storeOk).key
        metadata == JSON_stringify([name |-> file.name, type |-> file.type, size |-> file.size])
    IN IF channelKey = 0
       THEN [err |-> "Channel key not available", ciphertext |-> AesGcmEncrypt("", 0, 0),
             iv |-> 0, metadata |-> metadata]
       ELSE LET enc == encryptWithSymmetricKey(file.data, channelKey, iv)
            IN [err |-> "", ciphertext |-> enc.ciphertext, iv |-> enc.iv, metadata |-> metadata]

encryptFile(d, file, channelId, storeOk) ==
    LET t == encryptFileTry(d, file, channelId, nextNonce + 1, storeOk)
    IN /\ t.err = "" => nextNonce < MaxNonces
       /\ nextNonce' = IF t.err = "" THEN nextNonce + 1 ELSE nextNonce
       /\ encLog' = IF t.err = ""
                    THEN Append(encLog, Encryption("encryptFile", file.data, t))
                    ELSE encLog
       /\ channelKeysCache' = CacheAfterGet(d, channelId, storeOk)
       /\ UNCHANGED <<authState, localStorage, blobStore, outOfBand, nextUser, nextKeyPair,
                      nextSymKey, tasks, granted, flow, msgVars, storeVars, call, extVars>>

\* the try block of decryptFile: the Blob made of the decrypted characters
decryptFileTry(d, encryptedData, iv, metadata, channelId, storeOk) ==
    LET channelKey == getChannelKeyResult(d, channelId, storeOk).key
        plain == decryptWithSymmetricKey(encryptedData, iv, channelKey)
    IN IF channelKey = 0 THEN [err |-> "Channel key not available", data |-> "", type |-> ""]
       ELSE IF plain.failed THEN [err |-> "OperationError", data |-> "", type |-> ""]
       ELSE [err |-> "", data |-> plain.pt, type |-> JSON_parse(metadata).type]

-----------------------------------------------------------------------------
(* getChannelKey step by step: the calls one browser has in flight, between awaits *)

\* no getChannelKey call of d is between its first and its last step
Quiet(d) == \A t \in TaskIds : tasks[d][t].pc = "idle"

\* lines 50-58: the cache check, then the private key of the current user
beginGetChannelKey(d, t, channelId) ==
    /\ tasks[d][t].pc = "idle"
    /\ LET cached == channelKeysCache[d][channelId]
           privateKeyJwk == getPrivateKey(d)
       IN tasks' = [tasks EXCEPT ![d][t] =
             IF cached # 0
             THEN [IdleTask EXCEPT !.pc = "done", !.chan = channelId, !.result = cached]
             ELSE IF privateKeyJwk = 0
             THEN [IdleTask EXCEPT !.pc = "done", !.chan = channelId, !.missed = TRUE]
             ELSE [IdleTask EXCEPT !.pc = "retrieve", !.chan = channelId, !.missed = TRUE,
                                   !.userId = authState[d].user.id,
                                   !.privateKeyJwk = privateKeyJwk]]
    /\ UNCHANGED <<authState, localStorage, channelKeysCache, blobStore, outOfBand, nextUser,
                   nextKeyPair, nextSymKey, nextNonce, encLog, granted, flow, msgVars, storeVars, call, extVars>>

\* lines 63-69: the read of the own Key Record; a missing record rejects, caught as null
retrieveKeyRecord(d, t) ==
    /\ tasks[d][t].pc = "retrieve"
    /\ LET key == KeyFile(tasks[d][t].userId)
           path == KeyPath(tasks[d][t].chan)
       IN tasks' = [tasks EXCEPT ![d][t] =
             IF HasBlob(key, path)
             THEN [@ EXCEPT !.pc = "unwrap", !.data = retrieve(key, path)]
             ELSE [@ EXCEPT !.pc = "done"]]
    /\ UNCHANGED <<authState, localStorage, channelKeysCache, blobStore, outOfBand, nextUser,
                   nextKeyPair, nextSymKey, nextNonce, encLog, granted, flow, msgVars, storeVars, call, extVars>>

\* a cache that takes the first key only and fails the call that comes second
cachePut_RejectDuplicate(cached, symmetricKey) ==
    IF cached # 0
    THEN [cache |-> cached, result |-> 0]
    ELSE [cache |-> symmetricKey, result |-> symmetricKey]

\* lines 83-85: channelKeysCache[channelId] = symmetricKey; return symmetricKey
cachePut(cached, symmetricKey) == [cache |-> symmetricKey, result |-> symmetricKey]

\* lines 71-85: unwrap the record that was read, cache the key and return it
finishGetChannelKey(d, t) ==
    /\ tasks[d][t].pc = "unwrap"
    /\ LET channelId == tasks[d][t].chan
           u == unwrapKeyRecord(tasks[d][t].data, tasks[d][t].privateKeyJwk)
           put == cachePut(channelKeysCache[d][channelId], u.key)
       IN IF u.key = 0
          THEN /\ tasks' = [tasks EXCEPT ![d][t].pc = "done"]
               /\ UNCHANGED channelKeysCache
          ELSE /\ tasks' = [tasks EXCEPT ![d][t].pc = "done", ![d][t].result = put.result]
               /\ channelKeysCache' = [channelKeysCache EXCEPT ![d][channelId] = put.cache]
    /\ UNCHANGED <<authState, localStorage, blobStore, outOfBand, nextUser,
                   nextKeyPair, nextSymKey, nextNonce, encLog, granted, flow, msgVars, storeVars, call, extVars>>

\* the callers have their answers: the calls of d that completed are forgotten
returnGetChannelKey(d) ==
    /\ \A t \in TaskIds : tasks[d][t].pc \in {"idle", "done"}
    /\ \E t \in TaskIds : tasks[d][t].pc = "done"
    /\ tasks' = [tasks EXCEPT ![d] = [t \in TaskIds |-> IdleTask]]
    /\ UNCHANGED <<authState, localStorage, channelKeysCache, blobStore, outOfBand, nextUser,
                   nextKeyPair, nextSymKey, nextNonce, encLog, granted, flow, msgVars, storeVars, call, extVars>>

\* public keys a sharer can be handed: the published ones, or a malformed JWK (0)
PublishedKeys == 0..nextKeyPair

\* blobs the recipient on device d can be handed: the shared one, one that nobody can
\* unwrap, and one made for its public key that holds no key export
Deliverable(d) == {outOfBand.blob, Garbage, Malformed(authState[d].user.publicKey)}

-----------------------------------------------------------------------------
(* Channels and messages (MessageProvider) *)

\* the Channel object createChannel builds (description, isPrivate, createdAt left out);
\* lastMessage is optional: the empty sequence is a channel without one
newChannel(id, name, user) ==
    [id |-> id, name |-> name, members |-> <<user.id>>, createdBy |-> user.id,
     lastMessage |-> <<>>, pinnedMessages |-> <<>>]

\* the try block of createChannel: keyOk is whether the store of the Key Record is answered
createChannelTry(d, id, storeOk, keyOk) ==
    IF authState[d].user.id = 0 THEN [err |-> "User not authenticated", stored |-> FALSE]
    ELSE IF ~storeOk THEN [err |-> "StorageError", stored |-> FALSE]
    ELSE [err |-> "", stored |-> TRUE]

\* what createChannel hands to its caller: the new id, or the rethrown error
createChannelResult(d, id, storeOk, keyOk) ==
    LET t == createChannelTry(d, id, storeOk, keyOk)
    IN [raised |-> t.err # "", value |-> IF t.err = "" THEN id ELSE ""]

createChannel(d, id, name, storeOk, keyOk) ==
    LET t == createChannelTry(d, id, storeOk, keyOk)
        user == authState[d].user
        symmetricKey == nextSymKey + 1
        g == generateChannelKeyTry(d, id, symmetricKey, keyOk)
        withChannel == storeInto(blobStore, ChannelFile(id),
                                 JSON_stringify(newChannel(id, name, user)), ChannelsPath)
    IN /\ user.id # 0 => id \notin channelIds
       /\ t.stored => nextSymKey < MaxSymKeys
       /\ channelIds' = IF user.id # 0 THEN channelIds \cup {id} ELSE channelIds
       /\ nextSymKey' = IF t.stored THEN symmetricKey ELSE nextSymKey
       /\ blobStore' = IF ~t.stored THEN blobStore
                       ELSE IF g.stored
                       THEN storeInto(withChannel, KeyFile(user.id),
                                      generateChannelKeyRecord(d, id, symmetricKey), KeyPath(id))
                       ELSE withChannel
       /\ channelKeysCache' = IF t.stored /\ g.err = ""
                              THEN [channelKeysCache EXCEPT ![d][id] = symmetricKey]
                              ELSE channelKeysCache
       /\ granted' = IF t.stored /\ g.err = "" THEN granted \cup {<<d, user.id, id>>} ELSE granted
       /\ messageState' = [messageState EXCEPT ![d] =
             IF t.err = ""
             THEN [@ EXCEPT !.channels = <<newChannel(id, name, user)>> \o @,
                               !.currentChannelId = id, !.error = ""]
             ELSE [@ EXCEPT !.error = "Failed to create channel"]]
       /\ flow' = NoFlow
       /\ UNCHANGED <<authState, localStorage, outOfBand, nextUser, nextKeyPair, nextNonce,
                      encLog, tasks, nextMessage, storeVars, call, extVars>>

\* setCurrentChannel
setCurrentChannel(d, channelId) ==
    /\ messageState' = [messageState EXCEPT ![d].currentChannelId = channelId]
    /\ UNCHANGED <<authState, localStorage, channelKeysCache, blobStore, outOfBand, nextUser,
                   nextKeyPair, nextSymKey, nextNonce, encLog, tasks, channelIds, nextMessage,
                   granted, flow, storeVars, call, extVars>>

ChannelNames == {"general"}

\* a string that is no output of an encryption
Text(s) == [key |-> 0, iv |-> 0, pt |-> s]

\* the content fetchMessages puts in place of a message it could not decrypt
CannotDecrypt == Text("[ENCRYPTED - Cannot decrypt]")

\* the Message object sendMessage builds (senderName, attachments and mentions left out).
\* The optional fields are written out: parentId 0 is a message that is no reply,
\* replyCount 0, edited FALSE and deleted FALSE stand for the field not being there
newMessage(id, enc, user, timestamp, channelId) ==
    [id |-> id, content |-> enc.ciphertext, iv |-> enc.iv, senderId |-> user.id,
     timestamp |-> timestamp, channelId |-> channelId, parentId |-> 0, reactions |-> <<>>,
     replyCount |-> 0, edited |-> FALSE, deleted |-> FALSE]

\* channels.findIndex((c) => c.id === channelId), 0 for -1
channelIndex(channels, channelId) ==
    LET hits == {i \in DOMAIN channels : channels[i].id = channelId}
    IN IF hits = {} THEN 0 ELSE CHOOSE i \in hits : \A j \in hits : i <= j

\* the try block of sendMessage for a message that is no reply: how far it gets.
\* storeOk answers the read of the Key Record, msgOk the store of the message, chanOk the
\* store of the channel object
sendMessageTry(d, content, channelId, storeOk, msgOk, chanOk) ==
    LET e == encryptMessageTry(d, content, channelId, nextNonce + 1, storeOk)
        ms == messageState[d]
        listed == channelIndex(ms.channels, channelId) # 0
        No(err) == [err |-> err, encrypted |-> FALSE, stored |-> FALSE, shown |-> FALSE,
                    updated |-> FALSE]
    IN IF authState[d].user.id = 0 THEN No("User not authenticated")
       ELSE IF e.err # "" THEN No(e.err)
       ELSE IF ~msgOk THEN [No("StorageError") EXCEPT !.encrypted = TRUE]
       ELSE [err |-> IF listed /\ ~chanOk THEN "StorageError" ELSE "",
             encrypted |-> TRUE, stored |-> TRUE,
             shown |-> channelId = ms.currentChannelId,
             updated |-> listed /\ chanOk]

\* sendMessage(content, channelId); the clock and the random id are drawn from nextMessage
sendMessage(d, content, channelId, storeOk, msgOk, chanOk) ==
    LET t == sendMessageTry(d, content, channelId, storeOk, msgOk, chanOk)
        user == authState[d].user
        id == nextMessage + 1
        e == encryptMessageTry(d, content, channelId, nextNonce + 1, storeOk)
        message == newMessage(id, e, user, id, channelId)
        ms == messageState[d]
        at == channelIndex(ms.channels, channelId)
        updatedChannels == [ms.channels EXCEPT ![at].lastMessage = <<message>>]
        withMessage == storeInto(blobStore, MessageFile(id), JSON_stringify(message),
                                 MessagesPath(channelId))
    IN /\ t.encrypted => nextNonce < MaxNonces /\ nextMessage < MaxMessages
       /\ nextNonce' = IF t.encrypted THEN nextNonce + 1 ELSE nextNonce
       /\ nextMessage' = IF t.encrypted THEN id ELSE nextMessage
       /\ encLog' = IF t.encrypted
                    THEN Append(encLog, Encryption("encryptMessage", content, e))
                    ELSE encLog
       /\ channelKeysCache' = IF user.id = 0 THEN channelKeysCache
                              ELSE CacheAfterGet(d, channelId, storeOk)
       /\ blobStore' = IF ~t.stored THEN blobStore
                       ELSE IF t.updated
                       THEN storeInto(withMessage, ChannelFile(channelId),
                                      JSON_stringify(updatedChannels[at]), ChannelsPath)
                       ELSE withMessage
       /\ messageState' = [messageState EXCEPT ![d] =
             [channels |-> IF t.updated THEN updatedChannels ELSE ms.channels,
              currentChannelId |-> ms.currentChannelId,
              messages |-> IF t.shown
                           THEN Append(ms.messages, [message EXCEPT !.content = Text(content)])
                           ELSE ms.messages,
              error |-> IF t.err = "" THEN "" ELSE "Failed to send message"]]
       /\ UNCHANGED <<authState, localStorage, outOfBand, nextUser, nextKeyPair, nextSymKey,
                      tasks, channelIds, granted, flow, storeVars, call, extVars>>

\* messages.findIndex((m) => m.id === messageId), 0 for -1
messageIndex(messages, messageId) ==
    LET hits == {i \in DOMAIN messages : messages[i].id = messageId}
    IN IF hits = {} THEN 0 ELSE CHOOSE i \in hits : \A j \in hits : i <= j

\* sendMessage(content, channelId, parentId) for a reply: the new message is stored, then
\* the parent found in the messages on display is stored again with its reply count
\* raised, then the display and the channel object are updated as for any message.  ok
\* is whether the blob store answers the calls.  ms is what the closure holds of the
\* state (messages, channels and currentChannelId as they were rendered when the handler
\* was called): setMessages(updatedMessages) and setChannels(updatedChannels) write
\* copies of it, setMessages((prev) => ...) appends to the messages of the moment
sendMessageFrom(d, ms, content, channelId, parentId, ok) ==
    LET user == authState[d].user
        id == nextMessage + 1
        e == encryptMessageTry(d, content, channelId, nextNonce + 1, ok)
        encrypted == user.id # 0 /\ e.err = ""
        message == [newMessage(id, e, user, id, channelId) EXCEPT !.parentId = parentId]
        prev == messageState[d].messages
        parentMessageIndex == messageIndex(ms.messages, parentId)
        parentMessage == [ms.messages[parentMessageIndex] EXCEPT !.replyCount = @ + 1]
        updatedMessages == IF parentMessageIndex # 0
                           THEN [ms.messages EXCEPT ![parentMessageIndex] = parentMessage]
                           ELSE prev
        at == channelIndex(ms.channels, channelId)
        updatedChannels == IF at # 0
                           THEN [ms.channels EXCEPT ![at].lastMessage = <<message>>]
                           ELSE ms.channels
        withMessage == storeInto(blobStore, MessageFile(id), JSON_stringify(message),
                                 MessagesPath(channelId))
        withParent == IF parentMessageIndex # 0
                      THEN storeInto(withMessage, MessageFile(parentId),
                                     JSON_stringify(parentMessage), MessagesPath(channelId))
                      ELSE withMessage
    IN /\ encrypted => nextNonce < MaxNonces /\ nextMessage < MaxMessages
       /\ nextNonce' = IF encrypted THEN nextNonce + 1 ELSE nextNonce
       /\ nextMessage' = IF encrypted THEN id ELSE nextMessage
       /\ encLog' = IF encrypted
                    THEN Append(encLog, Encryption("encryptMessage", content, e))
                    ELSE encLog
       /\ channelKeysCache' = IF user.id = 0 THEN channelKeysCache
                              ELSE CacheAfterGet(d, channelId, ok)
       /\ blobStore' = IF ~(encrypted /\ ok) THEN blobStore
                       ELSE IF at # 0
                       THEN storeInto(withParent, ChannelFile(channelId),
                                      JSON_stringify(updatedChannels[at]), ChannelsPath)
                       ELSE withParent
       /\ messageState' = [messageState EXCEPT ![d] =
             IF encrypted /\ ok
             THEN [channels |-> updatedChannels,
                   currentChannelId |-> messageState[d].currentChannelId,
                   messages |-> IF channelId = ms.currentChannelId
                                THEN Append(updatedMessages,
                                            [message EXCEPT !.content = Text(content)])
                                ELSE updatedMessages,
                   error |-> ""]
             ELSE [@ EXCEPT !.error = "Failed to send message"]]
       /\ UNCHANGED <<authState, localStorage, outOfBand, nextUser, nextKeyPair, nextSymKey,
                      tasks, channelIds, granted, flow, storeVars, call>>

\* a reply sent with nothing else under way
sendReply(d, content, channelId, parentId, ok) ==
    /\ sendMessageFrom(d, messageState[d], content, channelId, parentId, ok)
    /\ UNCHANGED extVars

\* what a handler that rewrites one message did: encrypted is whether encryptMessage
\* returned (pt and enc being its argument and its result), keyed whether getChannelKey
\* was called, stored whether record was written, messages the display afterwards
MessageOp(err, keyed, encrypted, pt, enc, written, record, messages) ==
    [err |-> err, keyed |-> keyed, encrypted |-> encrypted, pt |-> pt, enc |-> enc,
     stored |-> written, record |-> record, messages |-> messages]

\* encryptMessage was not called
NoEncryption == [err |-> "not called", ciphertext |-> AesGcmEncrypt("", 0, 0), iv |-> 0]

\* a handler that gave up before it touched a message
Refused(ms, err) ==
    MessageOp(err, FALSE, FALSE, "", NoEncryption, FALSE,
              newMessage(0, NoEncryption, NoUser, 0, ""), ms.messages)

\* the effect of editMessage, deleteMessage, addReaction or removeReaction on the state;
\* ms is what the closure holds of the state
messageOpFrom(d, ms, t, failure) ==
       /\ t.encrypted => nextNonce < MaxNonces
       /\ nextNonce' = IF t.encrypted THEN nextNonce + 1 ELSE nextNonce
       /\ encLog' = IF t.encrypted
                    THEN Append(encLog, Encryption("encryptMessage", t.pt, t.enc))
                    ELSE encLog
       /\ channelKeysCache' = IF t.keyed THEN CacheAfterGet(d, ms.currentChannelId, TRUE)
                              ELSE channelKeysCache
       /\ blobStore' = IF t.stored
                       THEN storeInto(blobStore, MessageFile(t.record.id),
                                      JSON_stringify(t.record), MessagesPath(ms.currentChannelId))
                       ELSE blobStore
       /\ messageState' = [messageState EXCEPT ![d] =
             IF t.err = "" THEN [@ EXCEPT !.messages = t.messages, !.error = ""]
             ELSE [@ EXCEPT !.error = failure]]
       /\ UNCHANGED <<authState, localStorage, outOfBand, nextUser, nextKeyPair, nextSymKey,
                      tasks, channelIds, nextMessage, granted, flow, storeVars, call>>

\* the same with nothing else under way: the closure holds the state of the moment
messageOp(d, t, failure) ==
    /\ messageOpFrom(d, messageState[d], t, failure)
    /\ UNCHANGED extVars

\* editMessage without the comparison of message.senderId with the id of the user
editMessageTry_AnySender(d, ms, messageId, newContent, ok) ==
    LET at == messageIndex(ms.messages, messageId)
        message == ms.messages[at]
        e == encryptMessageTry(d, newContent, ms.currentChannelId, nextNonce + 1, TRUE)
        updatedMessage == [message EXCEPT !.content = e.ciphertext, !.iv = e.iv,
                                          !.edited = TRUE]
        No(err, keyed, encrypted) ==
            MessageOp(err, keyed, encrypted, newContent, e, FALSE, updatedMessage, ms.messages)
    IN IF authState[d].user.id = 0 \/ ms.currentChannelId = ""
       THEN Refused(ms, "User not authenticated or no channel selected")
       ELSE IF at = 0 THEN Refused(ms, "Message not found")
       ELSE IF e.err # "" THEN No(e.err, TRUE, FALSE)
       ELSE IF ~ok THEN No("StorageError", TRUE, TRUE)
       ELSE MessageOp("", TRUE, TRUE, newContent, e, TRUE, updatedMessage,
                      [ms.messages EXCEPT ![at] =
                          [updatedMessage EXCEPT !.content = Text(newContent)]])

\* the try block of editMessage
editMessageTry(d, ms, messageId, newContent, ok) ==
    LET at == messageIndex(ms.messages, messageId)
        message == ms.messages[at]
        e == encryptMessageTry(d, newContent, ms.currentChannelId, nextNonce + 1, TRUE)
        updatedMessage == [message EXCEPT !.content = e.ciphertext, !.iv = e.iv,
                                          !.edited = TRUE]
        No(err, keyed, encrypted) ==
            MessageOp(err, keyed, encrypted, newContent, e, FALSE, updatedMessage, ms.messages)
    IN IF authState[d].user.id = 0 \/ ms.currentChannelId = ""
       THEN Refused(ms, "User not authenticated or no channel selected")
       ELSE IF at = 0 THEN Refused(ms, "Message not found")
       ELSE IF message.senderId # authState[d].user.id
       THEN Refused(ms, "Cannot edit another user's message")
       ELSE IF e.err # "" THEN No(e.err, TRUE, FALSE)
       ELSE IF ~ok THEN No("StorageError", TRUE, TRUE)
       ELSE MessageOp("", TRUE, TRUE, newContent, e, TRUE, updatedMessage,
                      [ms.messages EXCEPT ![at] =
                          [updatedMessage EXCEPT !.content = Text(newContent)]])

editMessage(d, messageId, newContent, ok) ==
    messageOp(d, editMessageTry(d, messageState[d], messageId, newContent, ok),
              "Failed to edit message")

\* the content deleteMessage writes in place of the message
Deleted == Text("[This message was deleted]")

\* the try block of deleteMessage; setMessages((prev) => prev.filter(...)) filters the
\* messages of the moment
deleteMessageTry(d, ms, messageId, ok) ==
    LET at == messageIndex(ms.messages, messageId)
        message == ms.messages[at]
    IN IF authState[d].user.id = 0 \/ ms.currentChannelId = ""
       THEN Refused(ms, "User not authenticated or no channel selected")
       ELSE IF at = 0 THEN Refused(ms, "Message not found")
       ELSE IF message.senderId # authState[d].user.id
       THEN Refused(ms, "Cannot delete another user's message")
       ELSE IF ~ok THEN Refused(ms, "StorageError")
       ELSE MessageOp("", FALSE, FALSE, "", NoEncryption, TRUE,
                      [message EXCEPT !.deleted = TRUE, !.content = Deleted],
                      SelectSeq(messageState[d].messages, LAMBDA m : m.id # messageId))

deleteMessage(d, messageId, ok) ==
    messageOp(d, deleteMessageTry(d, messageState[d], messageId, ok),
              "Failed to delete message")

\* the emoji a user picks
Emojis == {"+1"}

Reaction(emoji, user) == [emoji |-> emoji, userId |-> user.id]

\* what addReaction and removeReaction do once they have the new list of reactions: the
\* content of a message with an iv is encrypted again and only the ciphertext is taken
\* from the result, then the message is stored and put on display
reactionTry(d, ms, messageId, reactions, ok) ==
    LET at == messageIndex(ms.messages, messageId)
        message == ms.messages[at]
        updatedMessage == [message EXCEPT !.reactions = reactions]
        e == encryptMessageTry(d, message.content.pt, ms.currentChannelId, nextNonce + 1, TRUE)
        encryptedMessage == IF message.iv # 0
                            THEN [updatedMessage EXCEPT !.content = e.ciphertext]
                            ELSE updatedMessage
        No(err, keyed, encrypted) ==
            MessageOp(err, keyed, encrypted, message.content.pt, e, FALSE, encryptedMessage,
                      ms.messages)
    IN IF message.iv # 0 /\ e.err # "" THEN No(e.err, TRUE, FALSE)
       ELSE IF ~ok THEN No("StorageError", message.iv # 0, message.iv # 0)
       ELSE MessageOp("", message.iv # 0, message.iv # 0, message.content.pt, e, TRUE,
                      encryptedMessage, [ms.messages EXCEPT ![at] = updatedMessage])

\* the checks addReaction and removeReaction begin with
reactionRefused(d, ms, messageId) ==
    IF authState[d].user.id = 0 \/ ms.currentChannelId = ""
    THEN Refused(ms, "User not authenticated or no channel selected")
    ELSE IF messageIndex(ms.messages, messageId) = 0 THEN Refused(ms, "Message not found")
    ELSE Refused(ms, "")

\* addReaction without the look for a reaction the user already gave
addReactionTry_Again(d, ms, messageId, emoji, ok) ==
    LET refused == reactionRefused(d, ms, messageId)
        message == ms.messages[messageIndex(ms.messages, messageId)]
        mine == Reaction(emoji, authState[d].user)
    IN IF refused.err # "" THEN refused
       ELSE reactionTry(d, ms, messageId, Append(message.reactions, mine), ok)

\* the try block of addReaction: a reaction the user already gave is left as it is
addReactionTry(d, ms, messageId, emoji, ok) ==
    LET refused == reactionRefused(d, ms, messageId)
        message == ms.messages[messageIndex(ms.messages, messageId)]
        mine == Reaction(emoji, authState[d].user)
    IN IF refused.err # "" THEN refused
       ELSE IF \E i \in DOMAIN message.reactions : message.reactions[i] = mine THEN refused
       ELSE reactionTry(d, ms, messageId, Append(message.reactions, mine), ok)

addReaction(d, messageId, emoji, ok) ==
    messageOp(d, addReactionTry(d, messageState[d], messageId, emoji, ok),
              "Failed to add reaction")

\* the try block of removeReaction
removeReactionTry(d, ms, messageId, emoji, ok) ==
    LET refused == reactionRefused(d, ms, messageId)
        message == ms.messages[messageIndex(ms.messages, messageId)]
        mine == Reaction(emoji, authState[d].user)
    IN IF refused.err # "" THEN refused
       ELSE reactionTry(d, ms, messageId,
                        SelectSeq(message.reactions, LAMBDA r : r # mine), ok)

removeReaction(d, messageId, emoji, ok) ==
    messageOp(d, removeReactionTry(d, messageState[d], messageId, emoji, ok),
              "Failed to remove reaction")

\* the try block of pinMessage (pin) and of unpinMessage: pinMessage returns true without
\* a write when the id is among the pinned already, unpinMessage filters and writes in
\* any case
pinMessageTry(d, ms, messageId, channelId, pin, ok) ==
    LET at == channelIndex(ms.channels, channelId)
        channel == ms.channels[at]
        pinned == \E i \in DOMAIN channel.pinnedMessages : channel.pinnedMessages[i] = messageId
        updatedChannel ==
            [channel EXCEPT !.pinnedMessages =
                IF pin THEN Append(@, messageId) ELSE SelectSeq(@, LAMBDA id : id # messageId)]
        No(err) == [err |-> err, stored |-> FALSE, channels |-> ms.channels]
    IN IF authState[d].user.id = 0 THEN No("User not authenticated")
       ELSE IF at = 0 THEN No("Channel not found")
       ELSE IF pin /\ pinned THEN No("")
       ELSE IF ~ok THEN No("StorageError")
       ELSE [err |-> "", stored |-> TRUE,
             channels |-> [ms.channels EXCEPT ![at] = updatedChannel]]

\* pinMessage(messageId, channelId) and unpinMessage(messageId, channelId)
pinMessage(d, messageId, channelId, pin, ok) ==
    LET t == pinMessageTry(d, messageState[d], messageId, channelId, pin, ok)
        at == channelIndex(t.channels, channelId)
    IN /\ blobStore' = IF t.stored
                       THEN storeInto(blobStore, ChannelFile(channelId),
                                      JSON_stringify(t.channels[at]), ChannelsPath)
                       ELSE blobStore
       /\ messageState' = [messageState EXCEPT ![d] =
             IF t.err = "" THEN [@ EXCEPT !.channels = t.channels, !.error = ""]
             ELSE [@ EXCEPT !.error = IF pin THEN "Failed to pin message"
                                      ELSE "Failed to unpin message"]]
       /\ UNCHANGED <<authState, localStorage, channelKeysCache, outOfBand, nextUser,
                      nextKeyPair, nextSymKey, nextNonce, encLog, tasks, channelIds,
                      nextMessage, granted, flow, storeVars, call, extVars>>

\* channelMessages.sort by timestamp; Array.prototype.sort keeps equal elements in order
RECURSIVE sortByTimestamp(_)
sortByTimestamp(channelMessages) ==
    IF channelMessages = <<>> THEN <<>>
    ELSE LET first == Head(channelMessages)
             rest == sortByTimestamp(Tail(channelMessages))
         IN SelectSeq(rest, LAMBDA m : m.timestamp < first.timestamp)
            \o <<first>>
            \o SelectSeq(rest, LAMBDA m : m.timestamp >= first.timestamp)

\* the callback fetchMessages maps over the messages: decrypted, passed through when the
\* message has no iv, or marked when decryptMessage throws
decryptOne(d, message, channelId, storeOk) ==
    IF message.iv # 0
    THEN LET t == decryptMessageTry(d, message.content, message.iv, channelId, storeOk)
         IN IF t.err = ""
            THEN [message EXCEPT !.content = Text(t.value)]
            ELSE [message EXCEPT !.content = CannotDecrypt]
    ELSE message

\* the try block of fetchMessages: listOk answers listData, retrieveOk the retrieveData
\* calls, storeOk the read of the Key Record
fetchMessagesTry(d, channelId, listOk, retrieveOk, storeOk) ==
    LET path == MessagesPath(channelId)
        messageKeys == list(path)
        found == \A i \in DOMAIN messageKeys : retrieveOk /\ HasBlob(messageKeys[i], path)
        channelMessages == sortByTimestamp(
            [i \in DOMAIN messageKeys |-> JSON_parse(retrieve(messageKeys[i], path))])
    IN IF ~listOk \/ ~found
       THEN [err |-> "StorageError", messages |-> <<>>, decrypts |-> FALSE]
       ELSE [err |-> "",
             messages |-> [i \in DOMAIN channelMessages |->
                              decryptOne(d, channelMessages[i], channelId, storeOk)],
             decrypts |-> \E i \in DOMAIN channelMessages : channelMessages[i].iv # 0]

\* what fetchMessages returns: the catch block returns []
fetchMessagesResult(d, channelId, listOk, retrieveOk, storeOk) ==
    fetchMessagesTry(d, channelId, listOk, retrieveOk, storeOk).messages

\* fetchMessages(channelId) from its first await on: setMessages(decryptedMessages) does
\* not look at the channel selected by then
fetchMessagesFrom(d, channelId, listOk, retrieveOk, storeOk) ==
    LET t == fetchMessagesTry(d, channelId, listOk, retrieveOk, storeOk)
    IN /\ messageState' = [messageState EXCEPT ![d] =
             IF t.err = ""
             THEN [@ EXCEPT !.messages = t.messages, !.error = ""]
             ELSE [@ EXCEPT !.error = "Failed to fetch messages"]]
       /\ channelKeysCache' = IF t.decrypts THEN CacheAfterGet(d, channelId, storeOk)
                              ELSE channelKeysCache
       /\ UNCHANGED <<authState, localStorage, blobStore, outOfBand, nextUser, nextKeyPair,
                      nextSymKey, nextNonce, encLog, tasks, channelIds, nextMessage,
                      granted, flow, storeVars, call>>

\* fetchMessages(channelId) with nothing else under way
fetchMessages(d, channelId, listOk, retrieveOk, storeOk) ==
    /\ fetchMessagesFrom(d, channelId, listOk, retrieveOk, storeOk)
    /\ UNCHANGED extVars

-----------------------------------------------------------------------------
(* The handlers of the MessageProvider between their awaits.  A handler is an async
   function closed over the state its render saw: what it reads of messages, channels
   and currentChannelId after an await is that state, not the state of the moment *)

\* a handler that was called and has not resumed from its first await; messageId is the
\* parentId of a sendMessage, content the emoji of addReaction
Handler(op, closure, channelId, messageId, content) ==
    [op |-> op, closure |-> closure, channelId |-> channelId, messageId |-> messageId,
     content |-> content]

\* the effect on [currentChannelId] has run for the channel that is selected
Settled(d) == pending[d].rendered = messageState[d].currentChannelId

\* a handler is called: it runs to its first await
called(d, h) ==
    /\ Settled(d)
    /\ Cardinality(pending[d].calls) < MaxTasks
    /\ h \notin pending[d].calls
    /\ pending' = [pending EXCEPT ![d].calls = @ \cup {h}]
    /\ UNCHANGED <<authState, localStorage, channelKeysCache, blobStore, outOfBand, nextUser,
                   nextKeyPair, nextSymKey, nextNonce, encLog, tasks, msgVars, granted, flow,
                   storeVars, call, storageState, drive>>

\* the handler h runs from its first await to its end.  Every handler calls
\* setError(null) when it starts and setError(...) only where it returns false or null,
\* so the call of a handler that returned true or a message is remembered when the error
\* is empty afterwards
resumed(d, h) ==
    /\ h \in pending[d].calls
    /\ UNCHANGED <<storageState, drive>>
    /\ pending' = [pending EXCEPT
          ![d].calls = @ \ {h},
          ![d].returned = IF h.op # "fetchMessages" /\ messageState'[d].error = ""
                          THEN @ \cup {[h EXCEPT !.closure = defaultMessageState]}
                          ELSE @]

\* useEffect(..., [currentChannelId]): fetchMessages for the channel selected is called,
\* or the messages are emptied when none is.  fetchMessages reads nothing of its closure
channelEffect(d) ==
    LET current == messageState[d].currentChannelId
        h == Handler("fetchMessages", defaultMessageState, current, 0, "")
    IN /\ ~Settled(d)
       /\ pending' = [pending EXCEPT ![d].rendered = current,
                                     ![d].calls = IF current = "" THEN @ ELSE @ \cup {h}]
       /\ messageState' = IF current = ""
                          THEN [messageState EXCEPT ![d].messages = <<>>]
                          ELSE messageState
       /\ UNCHANGED <<authState, localStorage, channelKeysCache, blobStore, outOfBand, nextUser,
                      nextKeyPair, nextSymKey, nextNonce, encLog, tasks, channelIds,
                      nextMessage, granted, flow, storeVars, call, storageState, drive>>

\* the calls of the handlers a user can make from the messages on display
Handlers(d) ==
    LET ms == messageState[d]
        shown == {ms.messages[i].id : i \in DOMAIN ms.messages}
    IN {Handler("sendMessage", ms, c, id, m) :
            c \in {ms.currentChannelId} \cap Channels, id \in {0} \cup shown, m \in {"hello"}}
       \cup {Handler("editMessage", ms, "", id, "bye") : id \in shown}
       \cup {Handler("deleteMessage", ms, "", id, "") : id \in shown}
       \cup {Handler("addReaction", ms, "", id, e) : id \in shown, e \in Emojis}

-----------------------------------------------------------------------------
(* The primitives called on their own *)

\* a buffer no key authenticates: what the change of any of its bytes makes of a ciphertext
Flipped(buffer) == [buffer EXCEPT !.key = 0]

\* what a reader hands to decryptWithSymmetricKey
Given(ciphertext, iv, key) == [ciphertext |-> ciphertext, iv |-> iv, key |-> key]

NotOpened == [err |-> "not called", value |-> <<>>]

\* a call of encryptWithSymmetricKey(data, symmetricKey) about to be made; drawn is what
\* getRandomValues will return
AeadCall(data, symmetricKey, drawn) ==
    LET nothing == symmetricEncrypt(<<>>, 0, 0)
    IN [pc |-> "start", data |-> data, key |-> symmetricKey, drawn |-> drawn,
        sealed |-> nothing, given |-> Given(nothing.ciphertext, nothing.iv, 0),
        opened |-> NotOpened]

\* encryptWithSymmetricKey returns
encryptCall ==
    /\ call.pc = "start"
    /\ LET sealed == symmetricEncrypt(call.data, call.key, call.drawn)
       IN call' = [call EXCEPT !.pc = "encrypted", !.sealed = sealed,
                               !.given = Given(sealed.ciphertext, sealed.iv, call.key)]
    /\ UNCHANGED <<authState, localStorage, channelKeysCache, blobStore, outOfBand, nextUser,
                   nextKeyPair, nextSymKey, nextNonce, encLog, tasks, msgVars, storeVars,
                   granted, flow, extVars>>

\* what can become of the pair on its way to the reader: another spelling of the same
\* bytes, other bytes, the pair of another encryption, another key
Alterations(c) ==
    LET g == c.given
    IN {[g EXCEPT !.ciphertext = t] :
           t \in Respelled(g.ciphertext)
                 \cup {[g.ciphertext EXCEPT !.buffer = Flipped(@)],
                       [g.ciphertext EXCEPT !.padding = "partial"]}
                 \cup {symmetricEncrypt(c.data, c.key, n).ciphertext :
                          n \in (1..MaxNonces) \ {c.drawn}}}
       \cup {[g EXCEPT !.iv = t] :
           t \in Respelled(g.iv)
                 \cup {[g.iv EXCEPT !.buffer = n] : n \in (0..MaxNonces) \ {c.drawn}}}
       \cup {[g EXCEPT !.key = k] : k \in (1..MaxSymKeys) \ {c.key}}

alterCall ==
    /\ call.pc = "encrypted"
    /\ \E g \in Alterations(call) : call' = [call EXCEPT !.pc = "altered", !.given = g]
    /\ UNCHANGED <<authState, localStorage, channelKeysCache, blobStore, outOfBand, nextUser,
                   nextKeyPair, nextSymKey, nextNonce, encLog, tasks, msgVars, storeVars,
                   granted, flow, extVars>>

\* decryptWithSymmetricKey returns or throws
decryptCall ==
    /\ call.pc \in {"encrypted", "altered"}
    /\ call' = [call EXCEPT
          !.pc = IF call.pc = "encrypted" THEN "decrypted" ELSE "decrypted altered",
          !.opened = symmetricDecrypt(call.given.ciphertext, call.given.iv, call.given.key)]
    /\ UNCHANGED <<authState, localStorage, channelKeysCache, blobStore, outOfBand, nextUser,
                   nextKeyPair, nextSymKey, nextNonce, encLog, tasks, msgVars, storeVars,
                   granted, flow, extVars>>

\* the type of a Blob or File: the empty string when a character is outside U+0020 to
\* U+007E, else the string in ASCII lower case
BlobType(type) ==
    IF \E i \in 1..Len(type) : type[i] \notin 32..126 THEN <<>>
    ELSE [i \in 1..Len(type) |-> IF type[i] \in 65..90 THEN type[i] + 32 ELSE type[i]]

\* a File of the given bytes as the file picker hands it over
File(name, type, bytes) == [name |-> name, type |-> BlobType(type), size |-> Len(bytes), bytes |-> bytes]

\* new Blob([binaryData], { type })
Blob(binaryData, type) == [bytes |-> binaryData, type |-> BlobType(type)]

\* String.fromCharCode.apply(null, Array.from(fileData)): one code unit per byte, of the
\* same value
String_fromCharCode(fileData) == [i \in 1..Len(fileData) |-> fileData[i] % 65536]

\* a conversion back that encodes the string as UTF-8
binaryDataOf_Encoded(decryptedData) == TextEncoder_encode(decryptedData)

\* the loop of decryptFile: binaryData[i] = decryptedData.charCodeAt(i), stored in a
\* Uint8Array
binaryDataOf(decryptedData) == [i \in 1..Len(decryptedData) |-> decryptedData[i] % 256]

NoFileResult ==
    [err |-> "Channel key not available", encryptedData |-> symmetricEncrypt(<<>>, 0, 0).ciphertext,
     iv |-> symmetricEncrypt(<<>>, 0, 0).iv, metadata |-> JSON_stringify(<<>>)]

\* encryptFile(file, channelId); channelKey is what getChannelKey(channelId) returned, 0
\* for null
fileEncrypt(file, channelKey, drawn) ==
    IF channelKey = 0 THEN NoFileResult
    ELSE LET fileData == file.bytes
             metadata == JSON_stringify([name |-> file.name, type |-> file.type,
                                         size |-> file.size])
             sealed == symmetricEncrypt(String_fromCharCode(fileData), channelKey, drawn)
         IN [err |-> "", encryptedData |-> sealed.ciphertext, iv |-> sealed.iv,
             metadata |-> metadata]

\* decryptFile(encryptedData, iv, metadata, channelId)
fileDecrypt(encryptedData, iv, metadata, channelKey) ==
    IF channelKey = 0 THEN [err |-> "Channel key not available", blob |-> Blob(<<>>, <<>>)]
    ELSE LET decryptedData == symmetricDecrypt(encryptedData, iv, channelKey)
             type == JSON_parse(metadata).type
         IN IF decryptedData.err # "" THEN [err |-> decryptedData.err, blob |-> Blob(<<>>, <<>>)]
            ELSE [err |-> "", blob |-> Blob(binaryDataOf(decryptedData.value), type)]

\* a call of encryptFile under way
FileCall(file, channelKey, drawn) ==
    [pc |-> "file", file |-> file, key |-> channelKey, drawn |-> drawn,
     encrypted |-> NoFileResult, decrypted |-> [err |-> "not called", blob |-> Blob(<<>>, <<>>)]]

encryptFileCall ==
    /\ call.pc = "file"
    /\ call' = [call EXCEPT !.pc = "file encrypted",
                            !.encrypted = fileEncrypt(call.file, call.key, call.drawn)]
    /\ UNCHANGED <<authState, localStorage, channelKeysCache, blobStore, outOfBand, nextUser,
                   nextKeyPair, nextSymKey, nextNonce, encLog, tasks, msgVars, storeVars,
                   granted, flow, extVars>>

\* decryptFile applied to what encryptFile returned
decryptFileCall ==
    /\ call.pc = "file encrypted"
    /\ call.encrypted.err = ""
    /\ call' = [call EXCEPT !.pc = "file decrypted",
                            !.decrypted = fileDecrypt(call.encrypted.encryptedData,
                                                      call.encrypted.iv,
                                                      call.encrypted.metadata, call.key)]
    /\ UNCHANGED <<authState, localStorage, channelKeysCache, blobStore, outOfBand, nextUser,
                   nextKeyPair, nextSymKey, nextNonce, encLog, tasks, msgVars, storeVars,
                   granted, flow, extVars>>

\* a call of encryptWithPublicKey on the export of a symmetric key under the public key
\* of one key pair, to be undone with the private key of another or the same
WrapCall(symmetricKey, pub, priv) ==
    [pc |-> "wrap", data |-> exportedKeyText(symmetricKey),
     publicKey |-> importKey(pub, FALSE), privateKey |-> importKey(priv, TRUE),
     wrapped |-> publicKeyEncrypt(<<>>, importKey(0, TRUE)), unwrapped |-> NotOpened]

\* encryptWithPublicKey returns or throws
wrapCall ==
    /\ call.pc = "wrap"
    /\ call' = [call EXCEPT !.pc = "wrapped",
                            !.wrapped = publicKeyEncrypt(call.data, call.publicKey)]
    /\ UNCHANGED <<authState, localStorage, channelKeysCache, blobStore, outOfBand, nextUser,
                   nextKeyPair, nextSymKey, nextNonce, encLog, tasks, msgVars, storeVars,
                   granted, flow, extVars>>

\* decryptWithPrivateKey returns or throws
unwrapCall ==
    /\ call.pc = "wrapped"
    /\ call.wrapped.err = ""
    /\ call' = [call EXCEPT !.pc = "unwrapped",
                            !.unwrapped = privateKeyDecrypt(call.wrapped.value, call.privateKey)]
    /\ UNCHANGED <<authState, localStorage, channelKeysCache, blobStore, outOfBand, nextUser,
                   nextKeyPair, nextSymKey, nextNonce, encLog, tasks, msgVars, storeVars,
                   granted, flow, extVars>>

-----------------------------------------------------------------------------
(* Specifications *)

\* the channel keys are created and shared for
ManagedChannels == {"c1"}

\* Spec: one browser, through every operation of the identity provider and the key manager
Browser == {"d1"}

Next ==
    \/ \E d \in Browser : login(d)
    \/ \E d \in Browser : signUp(d)
    \/ \E d \in Browser : logout(d)
    \/ \E d \in Browser : generateUserKeys(d)
    \/ \E d \in Browser : checkAuthState(d)
    \/ \E d \in Browser, c \in ManagedChannels, ok \in BOOLEAN : getChannelKey(d, c, ok)
    \/ \E d \in Browser, c \in ManagedChannels, ok \in BOOLEAN : hasChannelKey(d, c, ok)
    \/ \E d \in Browser, c \in ManagedChannels, ok \in BOOLEAN : generateChannelKey(d, c, ok)
    \/ \E d \in Browser, c \in ManagedChannels, ok \in BOOLEAN :
          \E p \in PublishedKeys : shareChannelKey(d, c, p, ok)
    \/ \E d \in Browser, c \in ManagedChannels, ok \in BOOLEAN :
          \E b \in Deliverable(d) : importSharedChannelKey(d, b, c, ok)

Spec == Init /\ [][Next]_vars

\* SpecShare: the members of a channel, each in their own browser, over the shared blob store
NextShare ==
    \/ \E d \in Devices : login(d)
    \/ \E d \in Devices : signUp(d)
    \/ \E d \in Devices : checkAuthState(d)
    \/ \E d \in Devices, c \in ManagedChannels, ok \in BOOLEAN : getChannelKey(d, c, ok)
    \/ \E d \in Devices, c \in ManagedChannels, ok \in BOOLEAN : hasChannelKey(d, c, ok)
    \/ \E d \in Devices, c \in ManagedChannels, ok \in BOOLEAN : generateChannelKey(d, c, ok)
    \/ \E d \in Devices, c \in ManagedChannels, ok \in BOOLEAN :
          \E p \in PublishedKeys : shareChannelKey(d, c, p, ok)
    \/ \E d \in Devices, c \in ManagedChannels, ok \in BOOLEAN :
          \E b \in Deliverable(d) : importSharedChannelKey(d, b, c, ok)

SpecShare == Init /\ [][NextShare]_vars

\* SpecCipher: a member encrypting messages and files for a channel
NextCipher ==
    \/ \E d \in Browser : signUp(d)
    \/ \E d \in Browser : checkAuthState(d)
    \/ \E d \in Browser, c \in ManagedChannels, ok \in BOOLEAN : generateChannelKey(d, c, ok)
    \/ \E d \in Browser, c \in ManagedChannels, ok \in BOOLEAN :
          \E m \in Plaintexts : encryptMessage(d, m, c, ok)
    \/ \E d \in Browser, c \in ManagedChannels, ok \in BOOLEAN :
          \E f \in Files : encryptFile(d, f, c, ok)

SpecCipher == Init /\ [][NextCipher]_vars

\* SpecConc: getChannelKey calls in flight together in one browser, while another browser
\* goes on writing its own records.  The identity of the calls and its Key Record change
\* only while no call is in flight, and the blob store answers the reads of the calls.
NextConc ==
    \/ \E d \in Devices : Quiet(d) /\ signUp(d)
    \/ \E d \in Devices : Quiet(d) /\ checkAuthState(d)
    \/ \E d \in Devices, c \in ManagedChannels, ok \in BOOLEAN :
          Quiet(d) /\ generateChannelKey(d, c, ok)
    \/ \E d \in Browser, t \in TaskIds, c \in ManagedChannels : beginGetChannelKey(d, t, c)
    \/ \E d \in Browser, t \in TaskIds : retrieveKeyRecord(d, t)
    \/ \E d \in Browser, t \in TaskIds : finishGetChannelKey(d, t)
    \/ \E d \in Browser : returnGetChannelKey(d)

SpecConc == Init /\ [][NextConc]_vars

\* SpecRace: one user in one browser whose getChannelKey calls are under way while the
\* other operations of the key manager run; the blobs imported hold a key export
NextRace ==
    \/ \E d \in Browser : authState[d].user.id = 0 /\ signUp(d)
    \/ \E d \in Browser : Quiet(d) /\ checkAuthState(d)
    \/ \E d \in Browser, c \in ManagedChannels : generateChannelKey(d, c, TRUE)
    \/ \E d \in Browser, c \in ManagedChannels :
          shareChannelKey(d, c, authState[d].user.publicKey, TRUE)
    \/ \E d \in Browser, c \in ManagedChannels :
          importSharedChannelKey(d, outOfBand.blob, c, TRUE)
    \/ \E d \in Browser, t \in TaskIds, c \in ManagedChannels : beginGetChannelKey(d, t, c)
    \/ \E d \in Browser, t \in TaskIds : retrieveKeyRecord(d, t)
    \/ \E d \in Browser, t \in TaskIds : finishGetChannelKey(d, t)
    \/ \E d \in Browser : returnGetChannelKey(d)

SpecRace == Init /\ [][NextRace]_vars

\* SpecChat: one browser creating channels and working in them
NextChat ==
    \/ \E d \in Browser : signUp(d)
    \/ \E d \in Browser : login(d)
    \/ \E d \in Browser : checkAuthState(d)
    \/ \E d \in Browser, c \in Channels, n \in ChannelNames, ok \in BOOLEAN, keyOk \in BOOLEAN :
          createChannel(d, c, n, ok, keyOk)
    \/ \E d \in Browser, c \in Channels : setCurrentChannel(d, c)
    \/ \E d \in Browser, c \in ManagedChannels, m \in Plaintexts :
          \E storeOk \in BOOLEAN, msgOk \in BOOLEAN, chanOk \in BOOLEAN :
             sendMessage(d, m, c, storeOk, msgOk, chanOk)
    \/ \E d \in Browser, c \in ManagedChannels :
          \E listOk \in BOOLEAN, retrieveOk \in BOOLEAN, storeOk \in BOOLEAN :
             fetchMessages(d, c, listOk, retrieveOk, storeOk)

SpecChat == Init /\ [][NextChat]_vars

\* SpecReturn: one browser whose logins can draw an id again
NextReturn ==
    \/ \E d \in Browser, id \in UserIds : loginAs(d, id)
    \/ \E d \in Browser : logout(d)
    \/ \E d \in Browser : generateUserKeys(d)
    \/ \E d \in Browser : checkAuthState(d)
    \/ \E d \in Browser, c \in ManagedChannels, ok \in BOOLEAN : getChannelKey(d, c, ok)
    \/ \E d \in Browser, c \in ManagedChannels, ok \in BOOLEAN : generateChannelKey(d, c, ok)
    \/ \E d \in Browser, c \in ManagedChannels, ok \in BOOLEAN :
          \E p \in PublishedKeys : shareChannelKey(d, c, p, ok)
    \/ \E d \in Browser, c \in ManagedChannels, ok \in BOOLEAN :
          \E b \in Deliverable(d) : importSharedChannelKey(d, b, c, ok)

SpecReturn == Init /\ [][NextReturn]_vars

\* SpecThread: one member writing, answering, editing, reacting to and deleting messages
\* of a channel
MessageIds == 1..MaxMessages

NextThread ==
    \/ \E d \in Browser : signUp(d)
    \/ \E d \in Browser, c \in ManagedChannels, n \in ChannelNames :
          createChannel(d, c, n, TRUE, TRUE)
    \/ \E d \in Browser, c \in ManagedChannels, m \in Plaintexts, ok \in BOOLEAN :
          sendMessage(d, m, c, TRUE, ok, ok)
    \/ \E d \in Browser, c \in ManagedChannels, m \in Plaintexts, ok \in BOOLEAN :
          \E parentId \in MessageIds : sendReply(d, m, c, parentId, ok)
    \/ \E d \in Browser, id \in MessageIds, m \in Plaintexts, ok \in BOOLEAN :
          editMessage(d, id, m, ok)
    \/ \E d \in Browser, id \in MessageIds, ok \in BOOLEAN : deleteMessage(d, id, ok)
    \/ \E d \in Browser, id \in MessageIds, emoji \in Emojis, ok \in BOOLEAN :
          addReaction(d, id, emoji, ok)
    \/ \E d \in Browser, id \in MessageIds, emoji \in Emojis, ok \in BOOLEAN :
          removeReaction(d, id, emoji, ok)
    \/ \E d \in Browser, c \in ManagedChannels :
          fetchMessages(d, c, TRUE, TRUE, TRUE)

SpecThread == Init /\ [][NextThread]_vars

\* the calls of StorageContext on one Google Drive adapter, overlapping: retrieveData and
\* deleteData hand their path to the second parameter, which the adapter does not use
\* (written NoBlob), and list has no key (written KeyFile(0))
NextDrive ==
    \/ \E data \in StoreBlobs : driveCalled("store", KeyFile(1), data, KeyPath("c1"))
    \/ driveCalled("retrieve", KeyFile(1), NoBlob, NoPath)
    \/ driveCalled("delete", KeyFile(1), NoBlob, NoPath)
    \/ driveCalled("list", KeyFile(0), NoBlob, KeyPath("c1"))
    \/ \E c \in drive.calls : findFolder(c)
    \/ \E c \in drive.calls : createFolder(c)
    \/ \E c \in drive.calls : driveReturned(c)

SpecDrive == Init /\ [][NextDrive]_vars

\* one browser, its users reacting to the messages sent to a channel and pinning them
NextPins ==
    \E d \in Browser :
        \/ signUp(d)
        \/ \E c \in ManagedChannels, n \in ChannelNames : createChannel(d, c, n, TRUE, TRUE)
        \/ \E c \in ManagedChannels : sendMessage(d, "hello", c, TRUE, TRUE, TRUE)
        \/ \E id \in 1..nextMessage, emoji \in Emojis : addReaction(d, id, emoji, TRUE)
        \/ \E id \in 1..nextMessage, emoji \in Emojis : removeReaction(d, id, emoji, TRUE)
        \/ \E id \in 1..nextMessage, c \in ManagedChannels, ok \in BOOLEAN :
              pinMessage(d, id, c, TRUE, ok)
        \/ \E id \in 1..nextMessage, c \in ManagedChannels :
              pinMessage(d, id, c, FALSE, TRUE)

SpecPins == Init /\ [][NextPins]_vars

\* the settings a user can hand to configureStorage
SettingsInputs ==
    {StorageSettings(p, complete, rootFolder) :
        p \in StorageProviders \cup {"dropbox", "local"}, complete \in BOOLEAN,
        rootFolder \in {"", "chat"}}

\* the StorageProvider after it has mounted in a browser without saved settings
InitConfig ==
    /\ provider = ""
    /\ storageState = defaultStorageState
    /\ call = NoCall
    /\ InitApp

\* the storage being configured, again and with settings that fail, between the calls
\* that store and delete
NextConfig ==
    \/ \E settings \in SettingsInputs, ok \in BOOLEAN : configureStorage(settings, ok)
    \/ \E data \in StoreBlobs, path \in {NoPath, KeyPath("c1")}, ok \in BOOLEAN :
          storeData(KeyFile(1), data, path, ok)
    \/ \E path \in {NoPath, KeyPath("c1")}, ok \in BOOLEAN : deleteData(KeyFile(1), path, ok)

SpecConfig == InitConfig /\ [][NextConfig]_vars

\* one browser that several users sign up in one after the other, the messages of the
\* earlier ones staying on display: every edit and deletion a user can ask for
NextSender ==
    \E d \in Browser :
        \/ signUp(d)
        \/ \E c \in ManagedChannels, n \in ChannelNames : createChannel(d, c, n, TRUE, TRUE)
        \/ \E c \in ManagedChannels : sendMessage(d, "hello", c, TRUE, TRUE, TRUE)
        \/ \E id \in MessageIds, m \in Plaintexts : editMessage(d, id, m, TRUE)
        \/ \E id \in MessageIds : deleteMessage(d, id, TRUE)

SpecSender == Init /\ [][NextSender]_vars

\* one browser in which the channel is switched while fetchMessages and sendMessage are
\* under way: both are split at their first await, and the effect on the channel
\* selected runs before anything else does
NextSwitch ==
    \E d \in Browser :
        \/ authState[d].user.id = 0 /\ signUp(d)
        \/ \E c \in Channels, n \in ChannelNames :
              /\ Settled(d)
              /\ createChannel(d, c, n, TRUE, TRUE)
        \/ \E c \in channelIds : Settled(d) /\ setCurrentChannel(d, c)
        \/ channelEffect(d)
        \/ \E h \in Handlers(d) : h.op = "sendMessage" /\ h.messageId = 0 /\ called(d, h)
        \/ \E h \in pending[d].calls, ok \in BOOLEAN :
              /\ h.op = "fetchMessages"
              /\ fetchMessagesFrom(d, h.channelId, ok, TRUE, TRUE)
              /\ resumed(d, h)
        \/ \E h \in pending[d].calls :
              /\ h.op = "sendMessage"
              /\ sendMessageFrom(d, h.closure, h.content, h.channelId, h.messageId, TRUE)
              /\ resumed(d, h)

SpecSwitch == Init /\ [][NextSwitch]_vars

\* one browser and one channel in which the handlers that rewrite a message overlap
NextOverlap ==
    \E d \in Browser :
        \/ authState[d].user.id = 0 /\ signUp(d)
        \/ \E c \in ManagedChannels, n \in ChannelNames :
              /\ Settled(d)
              /\ createChannel(d, c, n, TRUE, TRUE)
        \/ channelEffect(d)
        \/ \E h \in Handlers(d) : called(d, h)
        \/ \E h \in pending[d].calls :
              /\ h.op = "fetchMessages"
              /\ fetchMessagesFrom(d, h.channelId, TRUE, TRUE, TRUE)
              /\ resumed(d, h)
        \/ \E h \in pending[d].calls :
              /\ h.op = "sendMessage"
              /\ sendMessageFrom(d, h.closure, h.content, h.channelId, h.messageId, TRUE)
              /\ resumed(d, h)
        \/ \E h \in pending[d].calls :
              /\ h.op = "editMessage"
              /\ messageOpFrom(d, h.closure,
                               editMessageTry(d, h.closure, h.messageId, h.content, TRUE),
                               "Failed to edit message")
              /\ resumed(d, h)
        \/ \E h \in pending[d].calls :
              /\ h.op = "deleteMessage"
              /\ messageOpFrom(d, h.closure, deleteMessageTry(d, h.closure, h.messageId, TRUE),
                               "Failed to delete message")
              /\ resumed(d, h)
        \/ \E h \in pending[d].calls :
              /\ h.op = "addReaction"
              /\ messageOpFrom(d, h.closure,
                               addReactionTry(d, h.closure, h.messageId, h.content, TRUE),
                               "Failed to add reaction")
              /\ resumed(d, h)

SpecOverlap == Init /\ [][NextOverlap]_vars

\* SpecStore: the callers of one configured adapter storing and deleting data
NextStore ==
    \/ \E key \in StoreKeys, data \in StoreBlobs, path \in StorePaths, ok \in BOOLEAN :
          storeData(key, data, path, ok)
    \/ \E key \in StoreKeys, path \in StorePaths, ok \in BOOLEAN : deleteData(key, path, ok)

SpecStore == InitStore /\ [][NextStore]_vars

\* SpecAead: the primitives called on their own, encryptWithSymmetricKey and
\* decryptWithSymmetricKey on every string and key, encryptWithPublicKey and
\* decryptWithPrivateKey on every exported key and pair of key pairs
InitAead ==
    /\ provider = "amazon-s3"
    /\ storageState = Configured(provider)
    /\ call \in {AeadCall(m, k, n) : m \in Strings16, k \in 1..MaxSymKeys, n \in 1..MaxNonces}
              \cup {WrapCall(k, pub, priv) :
                       k \in 1..MaxSymKeys, pub \in 1..MaxKeyPairs, priv \in 1..MaxKeyPairs}
    /\ InitApp

NextAead == encryptCall \/ alterCall \/ decryptCall \/ wrapCall \/ unwrapCall

SpecAead == InitAead /\ [][NextAead]_vars

\* SpecFile: encryptFile and decryptFile on files of every byte value
FileBytes == {0, 65, 128, 239, 255}

FileContents ==
    {<<b>> : b \in 0..255} \cup UNION {[1..n -> FileBytes] : n \in 0..MaxFileLength}

\* image/png, Image/PNG and a type with a character outside ASCII
FileTypes == {<<>>, <<105, 109, 97, 103, 101, 47, 112, 110, 103>>,
              <<73, 109, 97, 103, 101, 47, 80, 78, 71>>, <<233>>}

InitFile ==
    /\ provider = "amazon-s3"
    /\ storageState = Configured(provider)
    /\ call \in {FileCall(File("a.png", t, b), k, 1) :
                   t \in FileTypes, b \in FileContents, k \in 0..MaxSymKeys}
    /\ InitApp

NextFile == encryptFileCall \/ decryptFileCall

SpecFile == InitFile /\ [][NextFile]_vars

-----------------------------------------------------------------------------
(* Properties of the key manager, checked under Spec *)

LoggedIn(d) == authState[d].user.id # 0

OwnRecordStored(d, c) == HasBlob(KeyFile(authState[d].user.id), KeyPath(c))

\* C1: access isolation.  When the blob store holds no Key Record for the channel and
\* the current user, getChannelKey yields no key and hasChannelKey returns false.
C1_AccessIsolation ==
    \A d \in Devices, c \in Channels :
        (LoggedIn(d) /\ ~OwnRecordStored(d, c)) =>
            /\ getChannelKeyResult(d, c, TRUE).key = 0
            /\ ~hasChannelKeyResult(d, c, TRUE).value

\* every Key Record in the blob store, with its location
KeyRecordLocations == {l \in DOMAIN blobStore : l[1][1] = StoragePaths_ENCRYPTION}

\* C2: no value in the blob store and no value returned by shareChannelKey holds a
\* channel key in cleartext: each is an RSA ciphertext made for a generated public key.
C2_NoCleartextKey ==
    /\ \A l \in KeyRecordLocations :
          LET wrapped == JSON_parse(blobStore[l]).encryptedKey
          IN IsRsaCiphertext(wrapped) /\ wrapped.pub \in 1..nextKeyPair
    /\ outOfBand # NoShare =>
          IsRsaCiphertext(outOfBand.blob) /\ outOfBand.blob.pub \in 1..nextKeyPair

C2_Witness ==
    /\ KeyRecordLocations # {}
    /\ outOfBand # NoShare
    /\ \E d \in Devices, c \in Channels : channelKeysCache[d][c] # 0

\* the keys with which a member can end up working on channel c: from the cache, or
\* from the own Key Record when the cache is empty
ResolvedKeys(d, c) == {getChannelKeyResult(d, c, TRUE).key, loadChannelKey(d, c, TRUE).key}

C4_KeyAgreement ==
    \A x \in Devices, y \in Devices, c \in Channels :
        (LoggedIn(x) /\ LoggedIn(y)) =>
            \A kx \in ResolvedKeys(x, c) \ {0}, ky \in ResolvedKeys(y, c) \ {0} : kx = ky

\* C5: no revocation.  A user whose generateChannelKey or importSharedChannelKey
\* succeeded for a channel resolves the channel's key in every later state.
C5_NoRevocation ==
    \A g \in granted :
        authState[g[1]].user.id = g[2] => getChannelKeyResult(g[1], g[3], TRUE).key # 0

C7_CacheCorrectness ==
    [][\A d \in Devices, c \in Channels :
          (channelKeysCache[d][c] # 0 /\ ~checkAuthState(d)) =>
              /\ getChannelKeyResult(d, c, TRUE)'.key = channelKeysCache[d][c]
              /\ getChannelKeyResult(d, c, TRUE)'.reads = 0
              /\ getChannelKeyResult(d, c, TRUE)'.unwraps = 0]_vars

\* the calls of d for channel c that missed the cache and have completed
MissedAndDone(d, c) ==
    {t \in TaskIds : tasks[d][t].pc = "done" /\ tasks[d][t].missed /\ tasks[d][t].chan = c}

C9_HasIffGet ==
    \A d \in Devices, c \in Channels, ok \in BOOLEAN :
        /\ ~hasChannelKeyResult(d, c, ok).raised
        /\ hasChannelKeyResult(d, c, ok).value = (getChannelKeyResult(d, c, ok).key # 0)

\* hasChannelKey answers true from the Key Record alone, and false for each failure
C9_Witness ==
    \E d \in Devices, c \in Channels :
        /\ channelKeysCache[d][c] = 0
        /\ hasChannelKeyResult(d, c, TRUE).value
        /\ ~hasChannelKeyResult(d, c, FALSE).value

\* the Key Record of the current user of d for channel c
OwnRecord(d, c) == JSON_parse(retrieve(KeyFile(authState[d].user.id), KeyPath(c)))

\* C10: after a successful generateChannelKey(C) by U the blob store holds U's Key
\* Record for C at (encryption/C, key-U.json), wrapping the new key for U's private
\* key, and the cache maps C to that key; a call that fails (the last step that can
\* fail is the write of the record) writes no record and leaves the cache alone.
C10_GenerateChannelKey ==
    [][\A d \in Devices, c \in Channels, ok \in BOOLEAN :
          generateChannelKey(d, c, ok) =>
              IF generateChannelKeyTry(d, c, nextSymKey + 1, ok).err = ""
              THEN /\ OwnRecordStored(d, c)'
                   /\ OwnRecord(d, c)'.ownerUserId = authState[d].user.id
                   /\ OwnRecord(d, c)'.associatedId = c
                   /\ OwnRecord(d, c)'.keyType = "channel"
                   /\ loadChannelKey(d, c, TRUE)'.key = nextSymKey + 1
                   /\ channelKeysCache'[d][c] = nextSymKey + 1
                   /\ nextSymKey' = nextSymKey + 1
              ELSE /\ blobStore' = blobStore
                   /\ channelKeysCache' = channelKeysCache]_vars

C10_Witness ==
    /\ flow.stage = "generated"
    /\ OwnRecordStored(flow.a, flow.chan)
    /\ channelKeysCache[flow.a][flow.chan] = nextSymKey

\* C11: when generateChannelKey fails during createChannel, createChannel reports the
\* failure to its caller, no channel object for that channel is left in the blob store,
\* and the channel is neither added to the channel list nor made the current channel.
C11_CreateChannelRollback ==
    [][\A d \in Devices, c \in Channels, n \in ChannelNames, ok \in BOOLEAN, keyOk \in BOOLEAN :
          (/\ createChannel(d, c, n, ok, keyOk)
           /\ createChannelTry(d, c, ok, keyOk).stored
           /\ generateChannelKeyTry(d, c, nextSymKey + 1, keyOk).err # "") =>
              /\ createChannelResult(d, c, ok, keyOk).raised
              /\ ~HasBlob(ChannelFile(c), ChannelsPath)'
              /\ messageState'[d].channels = messageState[d].channels
              /\ messageState'[d].currentChannelId = messageState[d].currentChannelId]_vars

\* the error kinds of the key manager: what each failure inside getChannelKey stands for
ErrorKind(err) ==
    CASE err = "Private key not available" -> "IdentityUnavailable"
      [] err = "StorageError" -> "KeyNotFound"
      [] err \in {"OperationError", "DataError"} -> "DecryptionFailed"
      [] OTHER -> err

\* C12: when key resolution fails inside encryptMessage, decryptMessage, encryptFile or
\* decryptFile, the error the caller receives has the kind of the failure getChannelKey
\* met (KeyNotFound, IdentityUnavailable or DecryptionFailed).
C12_ErrorKindsPropagated ==
    \A d \in Devices, c \in Channels, m \in Plaintexts, f \in Files :
        LET cause == getChannelKeyTry(d, c, TRUE).err
            ct == AesGcmEncrypt(m, 1, 1)
            meta == JSON_stringify([name |-> f.name, type |-> f.type, size |-> f.size])
        IN (LoggedIn(d) /\ cause # "") =>
              /\ ErrorKind(encryptMessageTry(d, m, c, 1, TRUE).err) = ErrorKind(cause)
              /\ ErrorKind(decryptMessageTry(d, ct, 1, c, TRUE).err) = ErrorKind(cause)
              /\ ErrorKind(encryptFileTry(d, f, c, 1, TRUE).err) = ErrorKind(cause)
              /\ ErrorKind(decryptFileTry(d, ct, 1, meta, c, TRUE).err) = ErrorKind(cause)

\* the current identity of d lacks a user, a public key or a private key
IdentityUnavailable(d) ==
    \/ authState[d].user.id = 0
    \/ authState[d].user.publicKey = 0
    \/ getPrivateKey(d) = 0

\* C13: with no user, no public key or no loadable private key, generateChannelKey,
\* getChannelKey on a cache miss and importSharedChannelKey all fail, write nothing to
\* the blob store and leave the cache unchanged.
C13_IdentityUnavailable ==
    [][\A d \in Devices, c \in Channels, ok \in BOOLEAN :
          IdentityUnavailable(d) =>
              /\ generateChannelKey(d, c, ok) =>
                    /\ generateChannelKeyTry(d, c, nextSymKey + 1, ok).err # ""
                    /\ blobStore' = blobStore
                    /\ channelKeysCache' = channelKeysCache
              /\ (getChannelKey(d, c, ok) /\ channelKeysCache[d][c] = 0) =>
                    /\ getChannelKeyResult(d, c, ok).key = 0
                    /\ blobStore' = blobStore
                    /\ channelKeysCache' = channelKeysCache
              /\ \A b \in Deliverable(d) :
                    importSharedChannelKey(d, b, c, ok) =>
                        /\ importSharedChannelKeyTry(d, b, c, ok).err # ""
                        /\ blobStore' = blobStore
                        /\ channelKeysCache' = channelKeysCache]_vars

\* the one place of the Key Record of user u for channel c
RecordLocation(c, u) == <<<<"encryption", c>>, <<"key-", u, ".json">>>>

\* C14: at most one Key Record per (channel, user).  Every Key Record lies at
\* (encryption/<C>, key-<U>.json) for its own channel C and owner U, so no two records
\* are for the same pair and none lies under another user's name; getChannelKey reads
\* that place; a generateChannelKey or importSharedChannelKey step touches no other place.
C14_OneKeyRecord ==
    /\ [](\A l \in KeyRecordLocations :
            LET r == JSON_parse(blobStore[l])
            IN /\ l = RecordLocation(r.associatedId, r.ownerUserId)
               /\ r.id = <<"key-", r.associatedId, "-", r.ownerUserId>>)
    /\ [](\A d \in Devices, c \in Channels :
            getFullPath(KeyFile(authState[d].user.id), KeyPath(c))
                = RecordLocation(c, authState[d].user.id))
    /\ [][blobStore' # blobStore =>
             \A d \in Devices, c \in Channels, ok \in BOOLEAN :
                 (generateChannelKey(d, c, ok)
                    \/ \E b \in Deliverable(d) : importSharedChannelKey(d, b, c, ok)) =>
                     LET own == RecordLocation(c, authState[d].user.id)
                     IN /\ DOMAIN blobStore' \subseteq DOMAIN blobStore \cup {own}
                        /\ \A l \in DOMAIN blobStore \ {own} : blobStore'[l] = blobStore[l]]_vars

\* the only user there is has generated the key of a channel, shared it, and generated
\* again: one record, holding the second key
C14_Witness ==
    \E d \in Devices, c \in Channels :
        /\ nextUser = 1
        /\ LoggedIn(d)
        /\ outOfBand # NoShare
        /\ JSON_parse(outOfBand.blob.data).k = 1
        /\ KeyRecordLocations = {RecordLocation(c, authState[d].user.id)}
        /\ loadChannelKey(d, c, TRUE).key = 2

\* C15: shareChannelKey(C, recipientPublicKey) succeeds only if getChannelKey resolves C's
\* key for the caller; the blob it returns unwraps with the recipient's private key to
\* exactly that key and with no other private key; it raises when the caller has no key
\* for C; it writes nothing to the blob store.
C15_ShareChannelKey ==
    /\ [](\A d \in Devices, c \in Channels, ok \in BOOLEAN, p \in PublishedKeys :
            LET r == shareChannelKeyResult(d, c, p, ok)
                k == getChannelKeyResult(d, c, ok).key
            IN /\ ~r.raised =>
                     /\ LoggedIn(d) /\ k # 0
                     /\ \A q \in 1..nextKeyPair :
                           LET u == decryptWithPrivateKey(r.value, importKey(q, TRUE))
                           IN IF q = p
                              THEN /\ "failed" \notin DOMAIN u
                                   /\ importSymmetricKey(JSON_parse(u)) = k
                              ELSE "failed" \in DOMAIN u
               /\ k = 0 => r.raised)
    /\ [][blobStore' # blobStore =>
             \A d \in Devices, c \in Channels, ok \in BOOLEAN, p \in PublishedKeys :
                 ~shareChannelKey(d, c, p, ok)]_vars

\* a key was shared to another user: the store holds the sharer's record and no other
C15_Witness ==
    /\ flow.stage = "shared"
    /\ nextKeyPair >= 2
    /\ outOfBand.blob.pub # authState[flow.a].user.publicKey
    /\ KeyRecordLocations = {RecordLocation(flow.chan, authState[flow.a].user.id)}

C17_KeypairNeverRotated ==
    [][\A d \in Devices :
          /\ \A u \in UserIds :
                localStorage[d].privateKeyOf[u] # 0 =>
                    localStorage'[d].privateKeyOf[u] = localStorage[d].privateKeyOf[u]
          /\ (authState[d].user.id # 0 /\ authState'[d].user.id = authState[d].user.id) =>
                /\ authState'[d].user.publicKey = authState[d].user.publicKey
                /\ authState'[d].privateKeyJwk = authState[d].privateKeyJwk]_vars

-----------------------------------------------------------------------------
(* Properties of the message list, checked under SpecChat *)

\* the messages the blob store holds for a channel
StoredMessages(c) ==
    {JSON_parse(blobStore[k]) : k \in {l \in DOMAIN blobStore : l[1] = MessagesPath(c)}}

\* what fetchMessages has to show for a stored message: its decrypted content, or the
\* placeholder when decryptMessage fails on it
Shown(d, message, c, storeOk) ==
    LET t == decryptMessageTry(d, message.content, message.iv, c, storeOk)
    IN [message EXCEPT !.content = IF t.err = "" THEN Text(t.value) ELSE CannotDecrypt]

\* C18: fetchMessages(C) returns one entry per stored message of C, in timestamp order;
\* an entry whose decryption failed (bad ciphertext, no channel key) carries the
\* placeholder as content, every other entry its decrypted content; one failure does not
\* abort the batch.
C18_IndependentDecryption ==
    \A d \in Browser, c \in Channels, storeOk \in BOOLEAN :
       LET result == fetchMessagesResult(d, c, TRUE, TRUE, storeOk)
       IN /\ Len(result) = Cardinality(StoredMessages(c))
          /\ {result[i] : i \in DOMAIN result}
                = {Shown(d, message, c, storeOk) : message \in StoredMessages(c)}
          /\ \A i, j \in DOMAIN result : i < j => result[i].timestamp <= result[j].timestamp
\* C19: decryptMessage applied to a message record without nonce returns the content of
\* the record unchanged and does not fail, whether or not the channel key is available.
C19_BackwardCompatibility ==
    \A d \in Browser, c \in ManagedChannels, m \in Plaintexts, storeOk \in BOOLEAN :
       LET t == decryptMessageTry(d, Text(m), 0, c, storeOk)
       IN t.err = "" /\ t.value = m
-----------------------------------------------------------------------------
(* Lifetime of the Key Cache, checked under Spec *)

EmptyCache == [c \in Channels |-> 0]

\* the end of a session in browser d: logout, or the page going away (a reload)
Teardown(d) == logout(d) \/ checkAuthState(d)

\* the cache writes there are: getChannelKey on a miss (line 83), generateChannelKey
\* (line 144) and importSharedChannelKey (line 245), each putting the key it resolved
CacheWrite(d, c) ==
    LET symmetricKey == channelKeysCache'[d][c]
    IN \/ /\ channelKeysCache[d][c] = 0
          /\ \E storeOk \in BOOLEAN : getChannelKeyTry(d, c, storeOk).key = symmetricKey
       \/ /\ symmetricKey = nextSymKey + 1
          /\ nextSymKey' = symmetricKey
          /\ generateChannelKeyTry(d, c, symmetricKey, TRUE).err = ""
       \/ \E b \in Deliverable(d) :
             importSharedChannelKeyTry(d, b, c, TRUE).key = symmetricKey

\* no cached key is in the blob store or in local storage
CacheNotPersisted ==
    /\ \A d \in Devices, c \in Channels, l \in DOMAIN blobStore :
          channelKeysCache[d][c] # 0 =>
             blobStore[l] # JSON_stringify(exportKey(channelKeysCache[d][c]))
    /\ \A d \in Devices : DOMAIN localStorage[d] = {"user", "privateKey", "privateKeyOf"}

\* C20: Key Cache entries are never written to the blob store or to local storage; an
\* entry is added or overwritten only by getChannelKey (miss path), generateChannelKey and
\* importSharedChannelKey; an entry is removed only by the teardown of the session, and
\* after a teardown the cache is empty.
C20_KeyCacheLifetime ==
    /\ []CacheNotPersisted
    /\ [][\A d \in Browser :
            /\ \A c \in Channels :
                  channelKeysCache'[d][c] # channelKeysCache[d][c] =>
                     IF channelKeysCache'[d][c] = 0 THEN Teardown(d) ELSE CacheWrite(d, c)
            /\ Teardown(d) => channelKeysCache'[d] = EmptyCache]_vars
-----------------------------------------------------------------------------
(* Properties of the storage adapters, checked under SpecStore *)

\* C21: with every adapter, retrieve(key, collection) returns the data of the latest
\* successful store(key, data, collection), and fails for a (key, collection) that was
\* never stored; so a Key Record stored under encryption/<channelId> is found by the read
\* getChannelKey makes with the same key and collection.
C21_ReadAfterWrite ==
    \A key \in StoreKeys, path \in StorePaths :
       LET location == <<path, key>>
           r == retrieveData(key, path, TRUE)
       IN IF location \in DOMAIN stored
          THEN ~stored[location].deleted => r.ok /\ r.data = stored[location].data
          ELSE ~r.ok
\* the keys stored in a collection and not deleted
LiveKeys(path) ==
    {key \in StoreKeys : <<path, key>> \in DOMAIN stored /\ ~stored[<<path, key>>].deleted}

\* C22: with every adapter, list(collection) returns exactly the keys that were stored in
\* the collection and not deleted (so that loadChannels and fetchMessages find what
\* createChannel and sendMessage persisted).
C22_Listing ==
    \A path \in StorePaths \ {NoPath} :
       LET r == listData(path, TRUE)
       IN r.ok /\ {r.keys[i] : i \in DOMAIN r.keys} = LiveKeys(path)
-----------------------------------------------------------------------------
(* Properties of the primitives, checked under SpecAead *)

\* C23: for every plaintext m and symmetric key k, decrypting the (ciphertext, nonce)
\* pair that encrypting m under k produced, with the same k, returns m.
C23_AeadRoundTrip ==
    call.pc = "decrypted" => call.opened.err = "" /\ call.opened.value = call.data

\* the reader was handed something else than the texts and the key of the encryption
Differs == call.given # Given(call.sealed.ciphertext, call.sealed.iv, call.key)

\* the reader was handed other bytes or another key, or a text atob cannot read
DiffersInBytes ==
    LET ciphertext == base64ToArrayBuffer(call.given.ciphertext)
        iv == base64ToArrayBuffer(call.given.iv)
    IN \/ ciphertext.failed \/ iv.failed
       \/ ciphertext.buffer # call.sealed.ciphertext.buffer
       \/ iv.buffer # call.sealed.iv.buffer
       \/ call.given.key # call.key

Rejected == call.opened.err # "" /\ call.opened.value = <<>>

C25_KeyWrapRoundTrip ==
    call.pc = "unwrapped" =>
        IF call.privateKey.rsa = call.publicKey.rsa
        THEN call.unwrapped.err = "" /\ call.unwrapped.value = call.data
        ELSE call.unwrapped.err # "" /\ call.unwrapped.value = <<>>

C25_Witness ==
    /\ call.pc = "unwrapped"
    /\ call.privateKey.rsa = call.publicKey.rsa
    /\ Len(call.data) > 100
    /\ call.unwrapped.value = call.data

-----------------------------------------------------------------------------
(* Files, checked under SpecFile *)

\* C26: encryptFile returns the name, the MIME type and the size of the file unencrypted
\* next to the ciphertext and the nonce, and decryptFile applied to that result with the
\* same channel key yields a blob whose bytes are the bytes of the file and whose type
\* is the MIME type declared in the metadata.
C26_FileRoundTrip ==
    /\ call.pc \in {"file encrypted", "file decrypted"} /\ call.encrypted.err = "" =>
          JSON_parse(call.encrypted.metadata) =
              [name |-> call.file.name, type |-> call.file.type, size |-> call.file.size]
    /\ call.pc = "file decrypted" =>
          /\ call.decrypted.err = ""
          /\ call.decrypted.blob.bytes = call.file.bytes
          /\ call.decrypted.blob.type = JSON_parse(call.encrypted.metadata).type

C26_Witness ==
    /\ call.pc = "file decrypted"
    /\ call.file.bytes = <<255, 0>>
    /\ call.file.type # <<>>
    /\ call.decrypted.blob.bytes = <<255, 0>>

-----------------------------------------------------------------------------
(* Failure atomicity of the key manager *)

\* C27: if generateChannelKey or importSharedChannelKey returns false (the unwrap fails,
\* the unwrapped key export is malformed, or the blob store fails), then no Key Record
\* was written or replaced and the Key Cache is unchanged; and the Key Cache is
\* populated for a channel only when the Key Record was written.
C27_FailureLeavesState ==
    [][\A d \in Browser, c \in ManagedChannels, ok \in BOOLEAN :
          /\ LET t == generateChannelKeyTry(d, c, nextSymKey + 1, ok)
             IN generateChannelKey(d, c, ok) =>
                  /\ t.err # "" => blobStore' = blobStore /\ channelKeysCache' = channelKeysCache
                  /\ channelKeysCache'[d][c] # channelKeysCache[d][c] => t.stored
          /\ \A b \in Deliverable(d) :
                LET t == importSharedChannelKeyTry(d, b, c, ok)
                IN importSharedChannelKey(d, b, c, ok) =>
                     /\ t.err # "" => blobStore' = blobStore /\ channelKeysCache' = channelKeysCache
                     /\ channelKeysCache'[d][c] # channelKeysCache[d][c] => t.stored]_vars

-----------------------------------------------------------------------------
(* Messages in the blob store, checked under SpecThread *)

\* the lastMessage of the stored channel object of c, if there is one
StoredLastMessages(c) ==
    IF HasBlob(ChannelFile(c), ChannelsPath)
    THEN LET lastMessage == JSON_parse(retrieve(ChannelFile(c), ChannelsPath)).lastMessage
         IN {lastMessage[i] : i \in DOMAIN lastMessage}
    ELSE {}

\* C28: every message record in the blob store that carries a nonce has as content the
\* ciphertext that was produced with exactly that nonce under the channel key, and it
\* decrypts to the plaintext the message currently has on display; after any sequence of
\* sendMessage, editMessage, addReaction, removeReaction, deleteMessage and replies.
C28_PersistedDecryptable ==
    \A d \in Browser, c \in ManagedChannels :
       \A message \in StoredMessages(c) :
          message.iv # 0 =>
             \E i \in DOMAIN encLog :
                /\ encLog[i].ciphertext = message.content
                /\ encLog[i].iv = message.iv
                /\ \A j \in DOMAIN messageState[d].messages :
                      messageState[d].messages[j].id = message.id =>
                         messageState[d].messages[j].content = Text(encLog[i].pt)

\* C29: for a channel with a key, no operation writes the decrypted plaintext of an
\* encrypted message to the blob store: neither a message record nor the lastMessage of
\* the channel object has as content a text that was encrypted for the channel.
C29_NoPlaintextStored ==
    \A c \in ManagedChannels :
       \A message \in StoredMessages(c) \cup StoredLastMessages(c) :
          \A i \in DOMAIN encLog : message.content # Text(encLog[i].pt)

-----------------------------------------------------------------------------
(* Cache and store under interleaving, checked under SpecRace *)

\* C30: whenever no key-manager operation is in flight, every Key Cache entry for a
\* channel equals the key obtained by unwrapping the current user's persisted Key Record
\* for it, also when a generateChannelKey or importSharedChannelKey completed between
\* the blob-store read and the cache write of a getChannelKey call that missed.
C30_CacheMatchesStore ==
    \A d \in Browser, c \in ManagedChannels :
       Quiet(d) /\ channelKeysCache[d][c] # 0 =>
          channelKeysCache[d][c] = loadChannelKey(d, c, TRUE).key

-----------------------------------------------------------------------------
(* The handlers overlapping *)

\* a fetchMessages call is under way in the browser d, or about to be made by the effect
Fetching(d) ==
    \/ ~Settled(d)
    \/ \E h \in pending[d].calls : h.op = "fetchMessages"

\* C31: whenever no fetchMessages call is in flight, every message on display has the
\* channelId of the channel selected, whatever the order in which the fetches of the
\* channels selected one after the other and the sendMessage calls complete
C31_DisplayedBelongToSelected ==
    \A d \in Browser :
        ~Fetching(d) =>
            \A i \in DOMAIN messageState[d].messages :
                messageState[d].messages[i].channelId = messageState[d].currentChannelId

\* the record of the message id that is persisted for the channel c
Persisted(c, id) == JSON_parse(retrieve(MessageFile(id), MessagesPath(c)))

\* the update of the call r that returned success is in the message m
Reflects(m, r, user) ==
    CASE r.op = "addReaction" ->
            \E i \in DOMAIN m.reactions : m.reactions[i] = Reaction(r.content, user)
      [] r.op = "editMessage" -> m.edited
      [] r.op = "sendMessage" -> r.messageId # 0 => m.replyCount >= 1
      [] OTHER -> TRUE

\* C32: once the overlapping calls on a message have returned, the persisted record and
\* the message on display hold the update of every addReaction, editMessage and reply
\* that returned success, whatever the order of their reads of messages and their writes
C32_NoLostUpdate ==
    \A d \in Browser :
        LET ms == messageState[d]
            c == ms.currentChannelId
        IN pending[d].calls = {} =>
              \A r \in pending[d].returned :
                  LET at == messageIndex(ms.messages, r.messageId)
                  IN r.messageId # 0 =>
                        /\ Reflects(Persisted(c, r.messageId), r, authState[d].user)
                        /\ at # 0 => Reflects(ms.messages[at], r, authState[d].user)

\* C33: once deleteMessage(id) has returned true, no message with that id is on display
\* and none is in what a fetchMessages of the channel returns from then on
C33_DeletionDurable ==
    \A d \in Browser :
        \A r \in pending[d].returned :
            r.op = "deleteMessage" =>
                LET fetched == fetchMessagesResult(d, messageState[d].currentChannelId,
                                                   TRUE, TRUE, TRUE)
                IN /\ messageIndex(messageState[d].messages, r.messageId) = 0
                   /\ messageIndex(fetched, r.messageId) = 0

-----------------------------------------------------------------------------
(* Who may edit and delete, checked under SpecSender *)

\* the user of the browser d may not touch the message messageId: nobody is signed in, no
\* channel is selected, no such message is on display, or it is the message of another
Barred(d, messageId) ==
    LET ms == messageState[d]
        at == messageIndex(ms.messages, messageId)
    IN \/ authState[d].user.id = 0
       \/ ms.currentChannelId = ""
       \/ at = 0
       \/ ms.messages[at].senderId # authState[d].user.id

\* C34: editMessage and deleteMessage called by a user who is not the sender of the
\* message (or with nobody signed in, no channel selected or an unknown message id) return
\* false, write nothing to the blob store and leave the messages on display as they are
C34_OnlySender ==
    [][\A d \in Browser, id \in MessageIds :
          Barred(d, id) =>
             /\ \A m \in Plaintexts :
                   editMessage(d, id, m, TRUE) =>
                      /\ messageState'[d].error = "Failed to edit message"
                      /\ blobStore' = blobStore
                      /\ messageState'[d].messages = messageState[d].messages
             /\ deleteMessage(d, id, TRUE) =>
                   /\ messageState'[d].error = "Failed to delete message"
                   /\ blobStore' = blobStore
                   /\ messageState'[d].messages = messageState[d].messages]_vars

\* the second user was refused the edit of a message of the first: both messages on
\* display are of the first user, and the error was set after the second was sent
C34_Witness ==
    \E d \in Browser :
        LET ms == messageState[d]
        IN /\ authState[d].user.id = 2
           /\ Len(ms.messages) = 2
           /\ \A i \in DOMAIN ms.messages : ms.messages[i].senderId = 1
           /\ ms.error = "Failed to edit message"
           /\ \A i \in DOMAIN ms.messages :
                 ~Persisted(ms.currentChannelId, ms.messages[i].id).edited

-----------------------------------------------------------------------------
(* What sendMessage leaves behind, checked under SpecChat *)

\* C35: a sendMessage that returns null (no channel key, or a write to the blob store
\* failed) leaves no record of the send in the blob store and leaves messages and channels
\* as they were; a sendMessage that returns a message leaves its record in the blob store,
\* with a ciphertext as content and the nonce that produced it
C35_SendAllOrNothing ==
    [][\A d \in Browser, c \in ManagedChannels, m \in Plaintexts :
          \A storeOk \in BOOLEAN, msgOk \in BOOLEAN, chanOk \in BOOLEAN :
             sendMessage(d, m, c, storeOk, msgOk, chanOk) =>
                LET location == getFullPath(MessageFile(nextMessage + 1), MessagesPath(c))
                IN IF messageState'[d].error = "Failed to send message"
                   THEN /\ location \notin DOMAIN blobStore'
                        /\ messageState'[d].messages = messageState[d].messages
                        /\ messageState'[d].channels = messageState[d].channels
                   ELSE /\ location \in DOMAIN blobStore'
                        /\ LET record == JSON_parse(blobStore'[location])
                           IN /\ record.iv = nextNonce'
                              /\ record.iv = nextNonce + 1
                              /\ record.content = AesGcmEncrypt(m, record.iv, record.content.key)
                              /\ record.content.key # 0]_vars

-----------------------------------------------------------------------------
(* The configuration of the storage, checked under SpecConfig *)

\* the adapter installed is the one of the settings, and its initialize() returned for them
Installed ==
    /\ provider \in StorageProviders
    /\ storageState.storageSettings.provider = provider
    /\ storageState.storageSettings.complete
    /\ storageState.saved = storageState.storageSettings

\* the settings for which no adapter is made or initialize() throws
Unusable(settings, ok) ==
    \/ settings.provider \notin StorageProviders
    \/ ~settings.complete
    \/ settings.provider = "google-drive" /\ settings.rootFolder # "" /\ ~ok

\* C36: isInitialized is true only with an adapter installed whose initialize() succeeded;
\* while no adapter is initialized, storeData, retrieveData, deleteData and listData fail
\* and reach no adapter; and a configureStorage that fails (a provider without adapter,
\* incomplete credentials, an error in initialize) returns false, sets the error and
\* leaves the adapter, the settings and the saved settings as they were
C36_StorageConfiguration ==
    [][/\ storageState.isInitialized => Installed
       /\ storageState'.isInitialized => Installed'
       /\ ~Ready =>
             \A data \in StoreBlobs, path \in {NoPath, KeyPath("c1")} :
                /\ ~retrieveData(KeyFile(1), path, TRUE).ok
                /\ ~listData(path, TRUE).ok
                /\ storeData(KeyFile(1), data, path, TRUE) => UNCHANGED <<blobStore, stored>>
                /\ deleteData(KeyFile(1), path, TRUE) => UNCHANGED <<blobStore, stored>>
       /\ \A settings \in SettingsInputs, ok \in BOOLEAN :
             Unusable(settings, ok) /\ configureStorage(settings, ok) =>
                /\ storageState'.error = "Failed to configure storage provider"
                /\ provider' = provider
                /\ storageState'.storageSettings = storageState.storageSettings
                /\ storageState'.saved = storageState.saved
                /\ storageState'.isInitialized = storageState.isInitialized]_vars

\* a configureStorage failed after one that had succeeded, and data was stored since
C36_Witness ==
    /\ storageState.error = "Failed to configure storage provider"
    /\ storageState.isInitialized
    /\ provider = "azure-blob"
    /\ storageState.storageSettings.rootFolder = "chat"
    /\ stored # <<>>

-----------------------------------------------------------------------------
(* The folders of the Google Drive adapter, checked under SpecDrive *)

\* C37: whatever the interleaving of the store, retrieve, delete and list calls on one
\* path, no parent holds two folders of one name, every file stored under the path lies
\* in the folder a later retrieve or list of the path looks in, and no folder was made by
\* retrieve, delete or list
C37_OneFolderPerSegment ==
    /\ \A f \in drive.folders, g \in drive.folders :
          f.name = g.name /\ f.parent = g.parent => f.id = g.id
    /\ \A f \in drive.folders : f.by = "store"
    /\ drive.calls = {} =>
          \A file \in drive.files :
             file.path \in DOMAIN drive.folderCache
             /\ file.parent = drive.folderCache[file.path]

-----------------------------------------------------------------------------
(* Reactions and pins, checked under SpecPins *)

\* no element of the array twice
NoRepeat(array) == \A i \in DOMAIN array, j \in DOMAIN array : array[i] = array[j] => i = j

\* C38: a message holds at most one reaction per user and emoji and a channel each pinned
\* id at most once, on display and in the blob store; addReaction for a reaction the user
\* has given and pinMessage for an id that is pinned return true and write nothing; and
\* after an unpinMessage(id) that returned true the id is not among the pinned
C38_IdempotentSets ==
    [][\A d \in Browser :
          LET ms == messageState[d]
              user == authState[d].user
          IN /\ \A i \in DOMAIN ms.messages : NoRepeat(ms.messages[i].reactions)
             /\ \A i \in DOMAIN messageState'[d].messages :
                   NoRepeat(messageState'[d].messages[i].reactions)
             /\ \A i \in DOMAIN messageState'[d].channels :
                   NoRepeat(messageState'[d].channels[i].pinnedMessages)
             /\ \A l \in DOMAIN blobStore' :
                   /\ l[1] = ChannelsPath => NoRepeat(JSON_parse(blobStore'[l]).pinnedMessages)
                   /\ l[1] \in {MessagesPath(c) : c \in Channels} =>
                         NoRepeat(JSON_parse(blobStore'[l]).reactions)
             /\ \A id \in MessageIds, emoji \in Emojis :
                   LET at == messageIndex(ms.messages, id)
                   IN /\ user.id # 0 /\ ms.currentChannelId # "" /\ at # 0
                      /\ \E i \in DOMAIN ms.messages[at].reactions :
                            ms.messages[at].reactions[i] = Reaction(emoji, user)
                      /\ addReaction(d, id, emoji, TRUE)
                      => blobStore' = blobStore /\ messageState'[d].error = ""
             /\ \A id \in MessageIds, c \in ManagedChannels, ok \in BOOLEAN :
                   LET at == channelIndex(ms.channels, c)
                   IN /\ /\ user.id # 0 /\ at # 0
                         /\ \E i \in DOMAIN ms.channels[at].pinnedMessages :
                               ms.channels[at].pinnedMessages[i] = id
                         /\ pinMessage(d, id, c, TRUE, ok)
                         => blobStore' = blobStore /\ messageState'[d].error = ""
                      /\ /\ pinMessage(d, id, c, FALSE, ok)
                         /\ messageState'[d].error = ""
                         => LET location == getFullPath(ChannelFile(c), ChannelsPath)
                                after == messageState'[d].channels[at].pinnedMessages
                                kept == JSON_parse(blobStore'[location]).pinnedMessages
                            IN /\ \A i \in DOMAIN after : after[i] # id
                               /\ \A i \in DOMAIN kept : kept[i] # id]_vars

\* both users of the browser have reacted to the first message, which is pinned
C38_Witness ==
    \E d \in Browser :
        LET ms == messageState[d]
        IN /\ Len(ms.messages) = 1
           /\ Len(ms.messages[1].reactions) = 2
           /\ Len(ms.channels) = 1
           /\ ms.channels[1].pinnedMessages = <<1>>
           /\ JSON_parse(retrieve(ChannelFile("c1"), ChannelsPath)).pinnedMessages = <<1>>
====
